---- MODULE Spec2Model ----
(***************************************************************************)
(* Model of the polling PR-review loops of cthulu:                         *)
(*   - poller_loop (src/app/slices/github_reviews/mod.rs) together with    *)
(*     the HTTP handlers trigger_review and review_status (routes.rs) and  *)
(*     the review tasks they spawn, all sharing one ReviewState;           *)
(*   - GithubPrTrigger::seed followed by GithubPrTrigger::poll_loop        *)
(*     (src/tasks/triggers/github.rs), which runs each review inline.      *)
(* `impl` says which of the two loops a behaviour is about.                *)
(***************************************************************************)
EXTENDS Integers, Sequences, FiniteSets, TLC

\* ------------------------------------------------------------------ bounds
MaxPr == 2          \* PR numbers are 1..MaxPr
MaxFetchLen == 2    \* longest PR list one fetch returns
MaxTicks == 2       \* interval ticks of one loop lifetime
MaxRequests == 1    \* HTTP requests (trigger_review / review_status) served

\* ------------------------------------------------------- program constants
max_retries == 10
backoff_cap == 5

Repos == <<"o/a", "o/b">>          \* the configured repos, in config order
RepoSet == {Repos[i] : i \in 1..Len(Repos)}
PRs == 1..MaxPr
NoRepo == "-"

VARIABLES
  impl,               \* "poller" (github_reviews) or "trigger" (GithubPrTrigger)
  github_token,       \* ReviewState.github_token is non-empty
  seen_prs,           \* HashMap<String, HashSet<u64>>: a function on its keys
  seen_lock,          \* holder of the seen_prs mutex
  active_reviews,
  reviews_completed,
  pc,                 \* position of the loop
  ri,                 \* index of the for loop over repos / seeded_repos
  attempt,            \* seed: `attempt`
  seeded_repos,       \* poll: `seeded_repos`
  prs,                \* fetched list not yet consumed by the loop
  new_prs,            \* `new` / `new_prs`
  result,             \* trigger: `result` of executor.execute
  ticks,              \* interval ticks elapsed
  tasks,              \* spawned review tasks in flight, counted by position
  req,                \* the HTTP request being served
  nreq,               \* HTTP requests accepted so far
  \* history
  slept,              \* backoff durations slept for the repo being seeded
  seed_ok,            \* repos whose seed fetch succeeded
  fetched,            \* result of the poll fetch of the repo being polled
  dispatched_now,     \* PRs dispatched since that fetch, in dispatch order
  dispatch_count,     \* dispatches by the loop per (repo, pr)
  accepted            \* (repo, pr) of the manual reviews answered 202

\* flows/graph.rs: one call of topo_sort followed by compute_levels
VARIABLES
  nodes,              \* `nodes`: the node ids, in declaration order
  edges,              \* `edges`: [source, target] records, in list order
  children,           \* build_adjacency: children map
  parents,            \* build_adjacency: parents map
  in_degree,          \* topo_sort: `in_degree`
  queue,              \* topo_sort: `queue`
  sorted,             \* topo_sort: `sorted`
  gpc,                \* position in topo_sort / compute_levels
  topo_result,        \* what topo_sort returned
  lsorted,            \* compute_levels: its argument `sorted`
  levels              \* what compute_levels returned

graphVars == <<nodes, edges, children, parents, in_degree, queue, sorted, gpc,
               topo_result, lsorted, levels>>

\* flows/graph.rs: one call of NodeOutput::merge
VARIABLES
  outputs,            \* `outputs`: the argument of merge
  mpc,                \* position in merge
  merged              \* what merge returned

mergeVars == <<outputs, mpc, merged>>

\* tasks/triggers/github.rs: two GithubPrTrigger values built with the same
\* Arc<TaskState>, both configured with the repo Repos[1]
VARIABLES
  task_seen,          \* task_state.seen_prs
  task_active,        \* task_state.active_reviews
  task_completed,     \* task_state.reviews_completed
  t_pc,               \* per trigger: position in seed / poll_loop
  t_attempt,          \* per trigger: seed `attempt`
  t_prs,              \* per trigger: the fetched list at hand
  t_new,              \* per trigger: `new_prs`
  t_seeded,           \* per trigger: Repos[1] is in `seeded_repos`
  t_ticks,            \* per trigger: interval ticks elapsed
  \* history
  t_own_seed,         \* per trigger: PR numbers its own seed fetch returned
  t_seed_ok,          \* per trigger: its own seed fetch succeeded
  t_observed,         \* per trigger: PR numbers its poll diffs went through
  t_picked            \* per trigger: PR numbers its poll diffs put in new_prs

twinVars == <<task_seen, task_active, task_completed, t_pc, t_attempt, t_prs,
              t_new, t_seeded, t_ticks, t_own_seed, t_seed_ok, t_observed,
              t_picked>>

\* the flow runner (spec 4.4) and the run recorder (spec 4.7): one submitted run
VARIABLES
  rpc,                \* position of the run
  cur_level,          \* the level being executed (index into `levels`)
  node_pc,            \* per node: its task is pending, running or done
  stored,             \* the per-node output table
  node_status,        \* recorder: the terminal status recorded per node
  run_status,         \* recorder: status of the run record
  \* history
  begin_calls,        \* begin_run calls
  finish_calls,       \* finish_run calls
  update_calls,       \* per node: terminal update_node calls
  invoked,            \* nodes whose runner was invoked
  runners             \* per node: its (deterministic) runner, if fixed

runVars == <<rpc, cur_level, node_pc, stored, node_status, run_status, begin_calls,
             finish_calls, update_calls, invoked, runners>>

\* the flow scheduler (spec 4.6)
VARIABLES
  enabled,            \* store: per flow, the flow is enabled
  handles,            \* the scheduler's mutex-guarded map: flow id -> loop
  loops,              \* per loop: its flow and whether it is alive
  calls               \* per caller: the scheduler operation it is in

schedVars == <<enabled, handles, loops, calls>>

\* the mutexes of ReviewState and the tasks that take them
VARIABLES
  lock_holder,        \* per mutex of ReviewState: the task holding it
  lock_pc             \* per task: its position in its sequence of lock steps

lockVars == <<lock_holder, lock_pc>>

\* reviewer.rs: one spawned review (handle_review, review_pr)
VARIABLES
  rv_pc,              \* position of the review task
  fetch_output,       \* `fetch_output.status` of git fetch, once it has run
  exit_status,        \* `status` of the assistant process, once waited for
  rv_result,          \* what review_pr returned
  rv_log,             \* what the task logged for the review's result
  rv_n                \* reviews started so far

reviewVars == <<rv_pc, fetch_output, exit_status, rv_result, rv_log, rv_n>>

\* tasks/sinks/slack.rs: one call of markdown_to_blocks
VARIABLES
  md_lines,           \* `text.lines()`: the lines still to be read
  current_lines,      \* `current_lines`
  blocks,             \* `blocks`
  md_pc               \* position in markdown_to_blocks

slackVars == <<md_lines, current_lines, blocks, md_pc>>

\* tasks/context.rs: one call of render_prompt
VARIABLES
  template,           \* `template`
  prompt_vars,        \* `vars`
  rendered,           \* `result`
  pending_keys,       \* keys the `for` loop has not visited yet
  rp_pc               \* position in render_prompt

renderVars == <<template, prompt_vars, rendered, pending_keys, rp_pc>>
pureVars == <<reviewVars, slackVars, renderVars>>

otherVars == <<graphVars, mergeVars, twinVars, runVars, schedVars, lockVars, pureVars>>

pollVars == <<impl, github_token, seen_prs, seen_lock, active_reviews,
              reviews_completed, pc, ri, attempt, seeded_repos, prs, new_prs,
              result, ticks, tasks, req, nreq, slept, seed_ok, fetched,
              dispatched_now, dispatch_count, accepted>>

vars == <<pollVars, otherVars>>
notGraph == <<pollVars, mergeVars, twinVars, runVars, schedVars, lockVars, pureVars>>
notMerge == <<pollVars, graphVars, twinVars, runVars, schedVars, lockVars, pureVars>>
notTwin == <<pollVars, graphVars, mergeVars, runVars, schedVars, lockVars, pureVars>>
notRun == <<pollVars, mergeVars, twinVars, schedVars, lockVars, pureVars>>
notLocks == <<pollVars, graphVars, mergeVars, twinVars, runVars, schedVars, pureVars>>
notReview == <<graphVars, mergeVars, twinVars, runVars, schedVars, lockVars, slackVars,
               renderVars>>
notSlack == <<pollVars, graphVars, mergeVars, twinVars, runVars, schedVars, lockVars,
              reviewVars, renderVars>>
notRender == <<pollVars, graphVars, mergeVars, twinVars, runVars, schedVars, lockVars,
               reviewVars, slackVars>>
notSched == <<pollVars, graphVars, mergeVars, twinVars, runVars, lockVars, pureVars>>

loopVars == <<pc, ri, attempt, seeded_repos, prs, new_prs, result, ticks>>
histVars == <<slept, seed_ok, fetched, dispatched_now, dispatch_count, accepted>>
stateVars == <<github_token, seen_prs, seen_lock, active_reviews,
               reviews_completed>>

\* --------------------------------------------------------------- helpers
RECURSIVE SeqsUpTo(_, _)
SeqsUpTo(S, n) ==
  IF n = 0 THEN {<<>>}
  ELSE LET shorter == SeqsUpTo(S, n - 1)
       IN shorter \cup {Append(s, x) : s \in {t \in shorter : Len(t) = n - 1}, x \in S}

\* what fetch_open_prs can return on success: any list of PR numbers
FetchResults == SeqsUpTo(PRs, MaxFetchLen)

Range(s) == {s[i] : i \in 1..Len(s)}

RECURSIVE Pow2(_)
Pow2(n) == IF n = 0 THEN 1 ELSE 2 * Pow2(n - 1)

Min(a, b) == IF a < b THEN a ELSE b

TaskPcs == {"spawned", "reviewing", "count"}
NoReq == [pc |-> "none", repo |-> NoRepo, pr |-> 0]

\* history: no poll fetch result at hand / the fetch failed
NoFetch == [ok |-> TRUE, list |-> <<>>]
FetchErr == [ok |-> FALSE, list |-> <<>>]

\* no topo_sort / merge call is in progress
NoOutput == [variant |-> "Empty"]
GraphIdle ==
  /\ nodes = <<>>
  /\ edges = <<>>
  /\ children = <<>>
  /\ parents = <<>>
  /\ in_degree = <<>>
  /\ queue = <<>>
  /\ sorted = <<>>
  /\ gpc = "idle"
  /\ topo_result = [ok |-> TRUE, sorted |-> <<>>]
  /\ lsorted = <<>>
  /\ levels = <<>>

MergeIdle ==
  /\ outputs = <<>>
  /\ mpc = "idle"
  /\ merged = NoOutput

TriggerIds == {1, 2}
TwinIdle ==
  /\ task_seen = <<>>
  /\ task_active = 0
  /\ task_completed = 0
  /\ t_pc = [i \in TriggerIds |-> "idle"]
  /\ t_attempt = [i \in TriggerIds |-> 0]
  /\ t_prs = [i \in TriggerIds |-> <<>>]
  /\ t_new = [i \in TriggerIds |-> <<>>]
  /\ t_seeded = [i \in TriggerIds |-> FALSE]
  /\ t_ticks = [i \in TriggerIds |-> 0]
  /\ t_own_seed = [i \in TriggerIds |-> {}]
  /\ t_seed_ok = [i \in TriggerIds |-> FALSE]
  /\ t_observed = [i \in TriggerIds |-> {}]
  /\ t_picked = [i \in TriggerIds |-> {}]

RunIdle ==
  /\ rpc = "idle"
  /\ cur_level = 0
  /\ node_pc = <<>>
  /\ stored = <<>>
  /\ node_status = <<>>
  /\ run_status = "none"
  /\ begin_calls = 0
  /\ finish_calls = 0
  /\ update_calls = <<>>
  /\ invoked = {}
  /\ runners = <<>>

SchedIdle ==
  /\ enabled = <<>>
  /\ handles = <<>>
  /\ loops = <<>>
  /\ calls = <<>>

LocksIdle ==
  /\ lock_holder = <<>>
  /\ lock_pc = <<>>

ReviewIdle ==
  /\ rv_pc = "idle"
  /\ fetch_output = "none"
  /\ exit_status = "none"
  /\ rv_result = "none"
  /\ rv_log = "none"
  /\ rv_n = 0

SlackIdle ==
  /\ md_lines = <<>>
  /\ current_lines = <<>>
  /\ blocks = <<>>
  /\ md_pc = "idle"

RenderIdle ==
  /\ template = <<>>
  /\ prompt_vars = <<>>
  /\ rendered = <<>>
  /\ pending_keys = {}
  /\ rp_pc = "idle"

PureIdle == ReviewIdle /\ SlackIdle /\ RenderIdle
OthersIdle == RunIdle /\ SchedIdle /\ LocksIdle /\ PureIdle

Init ==
  /\ impl \in {"poller", "trigger"}
  /\ github_token = FALSE
  /\ seen_prs = [r \in {} |-> {}]
  /\ seen_lock = "free"
  /\ active_reviews = 0
  /\ reviews_completed = 0
  /\ pc = IF impl = "poller" THEN "start" ELSE "seed_fetch"
  /\ ri = 1
  /\ attempt = 0
  /\ seeded_repos = <<>>
  /\ prs = <<>>
  /\ new_prs = <<>>
  /\ result = TRUE
  /\ ticks = 0
  /\ tasks = [p \in TaskPcs |-> 0]
  /\ req = NoReq
  /\ nreq = 0
  /\ slept = <<>>
  /\ seed_ok = {}
  /\ fetched = NoFetch
  /\ dispatched_now = <<>>
  /\ dispatch_count = [r \in RepoSet |-> [n \in PRs |-> 0]]
  /\ accepted = {}
  /\ GraphIdle
  /\ MergeIdle
  /\ TwinIdle
  /\ OthersIdle
\* start_poller: the spawned task stores the token, then runs poller_loop
StartPoller ==
  /\ impl = "poller"
  /\ pc = "start"
  /\ github_token' = TRUE
  /\ pc' = "seed_fetch"
  /\ UNCHANGED <<otherVars, impl, seen_prs, seen_lock, active_reviews, reviews_completed,
                 ri, attempt, seeded_repos, prs, new_prs, result, ticks,
                 tasks, req, nreq>>
  /\ UNCHANGED histVars


\* HashMap::insert(key, value): binds key to value, replacing an old binding
MapInsert(m, k, v) == [x \in (DOMAIN m) \cup {k} |-> IF x = k THEN v ELSE m[x]]

\* HashMap::entry(key).or_default(): binds key to the empty set unless bound
EntryOrDefault(m, k) == IF k \in DOMAIN m THEN m ELSE MapInsert(m, k, {})

\* ------------------------------------------------------------- seed phase
\* `2u64.pow(attempt.min(5))` seconds
Backoff_Uncapped(a) == Pow2(a)
Backoff(a) == Pow2(Min(a, backoff_cap))

\* `attempt += 1`, fetch_open_prs returns Ok(prs)
SeedFetchOk ==
  /\ pc = "seed_fetch"
  /\ \E list \in FetchResults : prs' = list
  /\ attempt' = attempt + 1
  /\ pc' = "seed_lock"
  /\ UNCHANGED <<otherVars, impl, ri, seeded_repos, new_prs, result, ticks, tasks, req, nreq>>
  /\ UNCHANGED stateVars
  /\ UNCHANGED histVars

\* Ok arm: lock seen_prs, `seen.insert(repo.full_name(), pr_numbers)`, break
SeedInsert ==
  /\ pc = "seed_lock"
  /\ seen_lock = "free"
  /\ seen_prs' = MapInsert(seen_prs, Repos[ri], Range(prs))
  /\ seed_ok' = seed_ok \cup {Repos[ri]}
  /\ prs' = <<>>
  /\ pc' = "seed_next"
  /\ UNCHANGED <<otherVars, impl, github_token, seen_lock, active_reviews, reviews_completed,
                 ri, attempt, seeded_repos, new_prs, result, ticks, tasks, req, nreq>>
  /\ UNCHANGED <<slept, fetched, dispatched_now, dispatch_count, accepted>>

\* `attempt += 1`, fetch_open_prs returns Err: give up at max_retries,
\* else compute the backoff and sleep
SeedFetchErr ==
  /\ pc = "seed_fetch"
  /\ attempt' = attempt + 1
  /\ IF attempt' >= max_retries
       THEN /\ pc' = "seed_next"
            /\ slept' = slept
       ELSE /\ pc' = "seed_sleep"
            /\ slept' = Append(slept, Backoff(attempt'))
  /\ UNCHANGED <<otherVars, impl, ri, seeded_repos, prs, new_prs, result, ticks, tasks, req, nreq>>
  /\ UNCHANGED stateVars
  /\ UNCHANGED <<seed_ok, fetched, dispatched_now, dispatch_count, accepted>>

\* tokio::time::sleep(backoff) elapses; back to the top of `loop`
SeedSleepDone ==
  /\ pc = "seed_sleep"
  /\ pc' = "seed_fetch"
  /\ UNCHANGED <<otherVars, impl, ri, attempt, seeded_repos, prs, new_prs, result, ticks,
                 tasks, req, nreq>>
  /\ UNCHANGED stateVars
  /\ UNCHANGED histVars

\* after `break`: the next repo of `for repo in &repos` (attempt = 0 again),
\* or the end of the seed phase
SeedNext ==
  /\ pc = "seed_next"
  /\ attempt' = 0
  /\ slept' = <<>>
  /\ IF ri < Len(Repos)
       THEN ri' = ri + 1 /\ pc' = "seed_fetch"
       ELSE ri' = 1 /\ pc' = "filter"
  /\ UNCHANGED <<otherVars, impl, seeded_repos, prs, new_prs, result, ticks, tasks, req, nreq>>
  /\ UNCHANGED stateVars
  /\ UNCHANGED <<seed_ok, fetched, dispatched_now, dispatch_count, accepted>>

\* `repos.into_iter().filter(|r| seen.contains_key(&r.full_name()))`
SeededFilter(seen) == SelectSeq(Repos, LAMBDA r : r \in DOMAIN seen)

\* seeded_repos is computed under the seen_prs lock
FilterSeeded ==
  /\ pc = "filter"
  /\ seen_lock = "free"
  /\ seeded_repos' = SeededFilter(seen_prs)
  /\ pc' = "tick"
  /\ UNCHANGED <<otherVars, impl, ri, attempt, prs, new_prs, result, ticks, tasks, req, nreq>>
  /\ UNCHANGED stateVars
  /\ UNCHANGED histVars

\* ------------------------------------------------------------- poll phase
CurRepo == seeded_repos[ri]

\* `interval.tick().await` returns; `for repo in &seeded_repos` starts
Tick ==
  /\ pc = "tick"
  /\ ticks < MaxTicks
  /\ ticks' = ticks + 1
  /\ ri' = 1
  /\ pc' = IF Len(seeded_repos) = 0 THEN "tick" ELSE "poll_fetch"
  /\ UNCHANGED <<otherVars, impl, attempt, seeded_repos, prs, new_prs, result, tasks, req, nreq>>
  /\ UNCHANGED stateVars
  /\ UNCHANGED histVars

\* fetch_open_prs returns Ok(prs)
PollFetchOk ==
  /\ pc = "poll_fetch"
  /\ \E list \in FetchResults : prs' = list /\ fetched' = [ok |-> TRUE, list |-> list]
  /\ pc' = "poll_lock"
  /\ UNCHANGED <<otherVars, impl, ri, attempt, seeded_repos, new_prs, result, ticks, tasks,
                 req, nreq>>
  /\ UNCHANGED stateVars
  /\ UNCHANGED <<slept, seed_ok, dispatched_now, dispatch_count, accepted>>

\* position after the body of `for repo in &seeded_repos` for repo number i
AfterRepo_Abort(i) == [pc |-> "tick", ri |-> 1]
AfterRepo(i) ==
  IF i < Len(seeded_repos) THEN [pc |-> "poll_fetch", ri |-> i + 1]
  ELSE [pc |-> "tick", ri |-> 1]

\* fetch_open_prs returns Err: log, `continue`
PollFetchErr ==
  /\ pc = "poll_fetch"
  /\ fetched' = FetchErr
  /\ pc' = AfterRepo(ri).pc
  /\ ri' = AfterRepo(ri).ri
  /\ UNCHANGED <<otherVars, impl, attempt, seeded_repos, prs, new_prs, result, ticks, tasks,
                 req, nreq>>
  /\ UNCHANGED stateVars
  /\ UNCHANGED <<slept, seed_ok, dispatched_now, dispatch_count, accepted>>

\* `let mut seen = ...seen_prs.lock().await;`
\* `let seen_set = seen.entry(repo.full_name()).or_default(); let mut new = Vec::new();`
PollLock_NoLock ==
  /\ pc = "poll_lock"
  /\ seen_prs' = EntryOrDefault(seen_prs, CurRepo)
  /\ new_prs' = <<>>
  /\ pc' = "poll_diff"
  /\ UNCHANGED <<otherVars, impl, github_token, seen_lock, active_reviews, reviews_completed,
                 ri, attempt, seeded_repos, prs, result, ticks, tasks, req, nreq>>
  /\ UNCHANGED histVars
PollLock ==
  /\ pc = "poll_lock"
  /\ seen_lock = "free"
  /\ seen_lock' = "loop"
  /\ seen_prs' = EntryOrDefault(seen_prs, CurRepo)
  /\ new_prs' = <<>>
  /\ pc' = "poll_diff"
  /\ UNCHANGED <<otherVars, impl, github_token, active_reviews, reviews_completed,
                 ri, attempt, seeded_repos, prs, result, ticks, tasks, req, nreq>>
  /\ UNCHANGED histVars

\* `seen_set.insert(pr.number)`
SeenInsert_Forget(set, n) == set
SeenInsert(set, n) == set \cup {n}

\* `new.push(pr)`
NewPush_Front(new, n) == <<n>> \o new
NewPush(new, n) == Append(new, n)

\* one iteration of `for pr in prs`: test membership, insert, push
PollDiffStep ==
  /\ pc = "poll_diff"
  /\ prs # <<>>
  /\ LET n == Head(prs) IN
       IF n \notin seen_prs[CurRepo]
         THEN /\ seen_prs' = [seen_prs EXCEPT ![CurRepo] = SeenInsert(@, n)]
              /\ new_prs' = NewPush(new_prs, n)
         ELSE UNCHANGED <<seen_prs, new_prs>>
  /\ prs' = Tail(prs)
  /\ UNCHANGED <<otherVars, impl, github_token, seen_lock, active_reviews, reviews_completed,
                 pc, ri, attempt, seeded_repos, result, ticks, tasks, req, nreq>>
  /\ UNCHANGED histVars

\* end of the block: `new` becomes new_prs and the guard is dropped
PollUnlock ==
  /\ pc = "poll_diff"
  /\ prs = <<>>
  /\ seen_lock' = "free"
  /\ pc' = "poll_dispatch"
  /\ UNCHANGED <<otherVars, impl, github_token, seen_prs, active_reviews, reviews_completed,
                 ri, attempt, seeded_repos, prs, new_prs, result, ticks, tasks,
                 req, nreq>>
  /\ UNCHANGED histVars

\* history of one dispatch by the loop
RecordDispatch(r, n) ==
  /\ dispatch_count' = [dispatch_count EXCEPT ![r][n] = @ + 1]
  /\ dispatched_now' = Append(dispatched_now, n)

\* poller_loop, one iteration of `for pr in new_prs`: tokio::spawn the review
PollerSpawn ==
  /\ impl = "poller"
  /\ pc = "poll_dispatch"
  /\ new_prs # <<>>
  /\ tasks' = [tasks EXCEPT !["spawned"] = @ + 1]
  /\ RecordDispatch(CurRepo, Head(new_prs))
  /\ new_prs' = Tail(new_prs)
  /\ UNCHANGED <<otherVars, impl, pc, ri, attempt, seeded_repos, prs, result, ticks, req, nreq>>
  /\ UNCHANGED stateVars
  /\ UNCHANGED <<slept, seed_ok, fetched, accepted>>

\* `for pr in new_prs` is exhausted: on to the next repo or the next tick
PollDispatchDone ==
  /\ pc = "poll_dispatch"
  /\ new_prs = <<>>
  /\ pc' = AfterRepo(ri).pc
  /\ ri' = AfterRepo(ri).ri
  /\ fetched' = NoFetch
  /\ dispatched_now' = <<>>
  /\ UNCHANGED <<otherVars, impl, attempt, seeded_repos, prs, new_prs, result, ticks, tasks,
                 req, nreq>>
  /\ UNCHANGED stateVars
  /\ UNCHANGED <<slept, seed_ok, dispatch_count, accepted>>

\* ------------------------------------- GithubPrTrigger: one item, inline
\* position after one iteration of `for pr in new_prs` of poll_loop
\* post_comment returns (its error is only logged)
TriggerPostComment ==
  /\ impl = "trigger"
  /\ pc = "poll_dispatch"
  /\ new_prs # <<>>
  /\ \E ok \in BOOLEAN : pc' = "fetch_diff"
  /\ UNCHANGED <<otherVars, impl, ri, attempt, seeded_repos, prs, new_prs, result, ticks,
                 tasks, req, nreq>>
  /\ UNCHANGED stateVars
  /\ UNCHANGED histVars

\* fetch_pr_diff returns Ok(d)
TriggerFetchDiffOk ==
  /\ pc = "fetch_diff"
  /\ pc' = "exec_start"
  /\ UNCHANGED <<otherVars, impl, ri, attempt, seeded_repos, prs, new_prs, result, ticks,
                 tasks, req, nreq>>
  /\ UNCHANGED stateVars
  /\ UNCHANGED histVars

\* fetch_pr_diff returns Err: log, `continue` with the next new PR
TriggerFetchDiffErr ==
  /\ pc = "fetch_diff"
  /\ new_prs' = Tail(new_prs)
  /\ pc' = "poll_dispatch"
  /\ UNCHANGED <<otherVars, impl, ri, attempt, seeded_repos, prs, result, ticks, tasks, req, nreq>>
  /\ UNCHANGED stateVars
  /\ UNCHANGED histVars

\* render_prompt, git fetch, `*active += 1`, then executor.execute is called
TriggerExecuteStart ==
  /\ pc = "exec_start"
  /\ active_reviews' = active_reviews + 1
  /\ RecordDispatch(CurRepo, Head(new_prs))
  /\ pc' = "executing"
  /\ UNCHANGED <<otherVars, impl, github_token, seen_prs, seen_lock, reviews_completed,
                 ri, attempt, seeded_repos, prs, new_prs, result, ticks, tasks,
                 req, nreq>>
  /\ UNCHANGED <<slept, seed_ok, fetched, accepted>>

\* `executor.execute(..).await` returns Ok or Err
TriggerExecuteReturn ==
  /\ pc = "executing"
  /\ \E ok \in BOOLEAN : result' = ok
  /\ pc' = "exec_dec"
  /\ UNCHANGED <<otherVars, impl, ri, attempt, seeded_repos, prs, new_prs, ticks, tasks, req, nreq>>
  /\ UNCHANGED stateVars
  /\ UNCHANGED histVars

\* `*active -= 1`; an Err result is logged and the iteration ends
TriggerDec ==
  /\ pc = "exec_dec"
  /\ active_reviews' = active_reviews - 1
  /\ IF result
       THEN pc' = "exec_count" /\ new_prs' = new_prs
       ELSE pc' = "poll_dispatch" /\ new_prs' = Tail(new_prs)
  /\ UNCHANGED <<otherVars, impl, github_token, seen_prs, seen_lock, reviews_completed,
                 ri, attempt, seeded_repos, prs, result, ticks, tasks, req, nreq>>
  /\ UNCHANGED histVars

\* Ok arm: `*completed += 1`
TriggerCount ==
  /\ pc = "exec_count"
  /\ reviews_completed' = reviews_completed + 1
  /\ new_prs' = Tail(new_prs)
  /\ pc' = "poll_dispatch"
  /\ UNCHANGED <<otherVars, impl, github_token, seen_prs, seen_lock, active_reviews,
                 ri, attempt, seeded_repos, prs, result, ticks, tasks, req, nreq>>
  /\ UNCHANGED histVars

\* ------------------------------- github_reviews: the spawned review task
MoveTask(from, to) ==
  [tasks EXCEPT ![from] = @ - 1, ![to] = @ + 1]
EndTask(from) == [tasks EXCEPT ![from] = @ - 1]

\* the task starts: `*active += 1`, then handle_review is called
TaskInc ==
  /\ tasks["spawned"] > 0
  /\ tasks' = MoveTask("spawned", "reviewing")
  /\ active_reviews' = active_reviews + 1
  /\ UNCHANGED <<otherVars, impl, github_token, seen_prs, seen_lock, reviews_completed, req, nreq>>
  /\ UNCHANGED loopVars
  /\ UNCHANGED histVars

TaskDec_OkOnly ==
  /\ tasks["reviewing"] > 0
  /\ \E ok \in BOOLEAN :
       /\ tasks' = IF ok THEN MoveTask("reviewing", "count") ELSE EndTask("reviewing")
       /\ active_reviews' = IF ok THEN active_reviews - 1 ELSE active_reviews
  /\ UNCHANGED <<otherVars, impl, github_token, seen_prs, seen_lock, reviews_completed, req, nreq>>
  /\ UNCHANGED loopVars
  /\ UNCHANGED histVars

\* handle_review returns Ok(()) or Err and the task takes the active_reviews
\* lock: `*active -= 1`; after an Err the task logs and ends
TaskDec ==
  /\ tasks["reviewing"] > 0
  /\ \E ok \in BOOLEAN :
       tasks' = IF ok THEN MoveTask("reviewing", "count") ELSE EndTask("reviewing")
  /\ active_reviews' = active_reviews - 1
  /\ UNCHANGED <<otherVars, impl, github_token, seen_prs, seen_lock, reviews_completed, req, nreq>>
  /\ UNCHANGED loopVars
  /\ UNCHANGED histVars

\* Ok arm: `*completed += 1`, the task ends
TaskCount ==
  /\ tasks["count"] > 0
  /\ tasks' = EndTask("count")
  /\ reviews_completed' = reviews_completed + 1
  /\ UNCHANGED <<otherVars, impl, github_token, seen_prs, seen_lock, active_reviews, req, nreq>>
  /\ UNCHANGED loopVars
  /\ UNCHANGED histVars

\* ------------------------------------------- github_reviews: HTTP routes
UnknownRepo == "x/unknown"

\* POST /trigger arrives: repo lookup and token check; an unknown repo is
\* answered 400 and an empty token 500, else fetch_single_pr is called
TriggerReviewArrive ==
  /\ impl = "poller"
  /\ req = NoReq
  /\ nreq < MaxRequests
  /\ nreq' = nreq + 1
  /\ \E r \in RepoSet \cup {UnknownRepo}, n \in PRs :
       req' = IF r \in RepoSet /\ github_token
                THEN [pc |-> "fetch_single_pr", repo |-> r, pr |-> n]
                ELSE NoReq
  /\ UNCHANGED <<otherVars, impl, tasks>>
  /\ UNCHANGED stateVars
  /\ UNCHANGED loopVars
  /\ UNCHANGED histVars

TriggerReviewFetchErr_Marks ==
  /\ req.pc = "fetch_single_pr"
  /\ seen_lock = "free"
  /\ seen_prs' = [EntryOrDefault(seen_prs, req.repo) EXCEPT ![req.repo] = @ \cup {req.pr}]
  /\ req' = NoReq
  /\ UNCHANGED <<otherVars, impl, tasks, nreq, github_token, seen_lock, active_reviews,
                 reviews_completed>>
  /\ UNCHANGED loopVars
  /\ UNCHANGED histVars

\* fetch_single_pr returns Err: answered 400
TriggerReviewFetchErr ==
  /\ req.pc = "fetch_single_pr"
  /\ req' = NoReq
  /\ UNCHANGED <<otherVars, impl, tasks, nreq>>
  /\ UNCHANGED stateVars
  /\ UNCHANGED loopVars
  /\ UNCHANGED histVars

\* fetch_single_pr returns Ok(pr); next the handler locks seen_prs
TriggerReviewFetchOk ==
  /\ req.pc = "fetch_single_pr"
  /\ req' = [req EXCEPT !.pc = "mark_seen"]
  /\ UNCHANGED <<otherVars, impl, tasks, nreq>>
  /\ UNCHANGED stateVars
  /\ UNCHANGED loopVars
  /\ UNCHANGED histVars

\* `seen.entry(repo_config.full_name()).or_default().insert(pr_number)`,
\* tokio::spawn of the review, answered 202
TriggerReviewMarkSeen ==
  /\ req.pc = "mark_seen"
  /\ seen_lock = "free"
  /\ seen_prs' = [EntryOrDefault(seen_prs, req.repo) EXCEPT ![req.repo] = @ \cup {req.pr}]
  /\ tasks' = [tasks EXCEPT !["spawned"] = @ + 1]
  /\ req' = NoReq
  /\ UNCHANGED <<otherVars, impl, github_token, seen_lock, active_reviews, reviews_completed, nreq>>
  /\ UNCHANGED loopVars
  /\ accepted' = accepted \cup {<<req.repo, req.pr>>}
  /\ UNCHANGED <<slept, seed_ok, fetched, dispatched_now, dispatch_count>>

\* GET /status arrives and takes the seen_prs lock
ReviewStatusLock ==
  /\ impl = "poller"
  /\ req = NoReq
  /\ nreq < MaxRequests
  /\ seen_lock = "free"
  /\ seen_lock' = "status"
  /\ nreq' = nreq + 1
  /\ req' = [pc |-> "status", repo |-> NoRepo, pr |-> 0]
  /\ UNCHANGED <<otherVars, impl, github_token, seen_prs, active_reviews, reviews_completed, tasks>>
  /\ UNCHANGED loopVars
  /\ UNCHANGED histVars

\* the counters are read, the JSON is built and the guard is dropped
ReviewStatusRead ==
  /\ req.pc = "status"
  /\ seen_lock' = "free"
  /\ req' = NoReq
  /\ UNCHANGED <<otherVars, impl, github_token, seen_prs, active_reviews, reviews_completed,
                 tasks, nreq>>
  /\ UNCHANGED loopVars
  /\ UNCHANGED histVars

Next ==
  \/ StartPoller
  \/ SeedFetchOk
  \/ SeedInsert
  \/ SeedFetchErr
  \/ SeedSleepDone
  \/ SeedNext
  \/ FilterSeeded
  \/ Tick
  \/ PollFetchOk
  \/ PollFetchErr
  \/ PollLock
  \/ PollDiffStep
  \/ PollUnlock
  \/ PollerSpawn
  \/ PollDispatchDone
  \/ TriggerPostComment
  \/ TriggerFetchDiffOk
  \/ TriggerFetchDiffErr
  \/ TriggerExecuteStart
  \/ TriggerExecuteReturn
  \/ TriggerDec
  \/ TriggerCount
  \/ TaskInc
  \/ TaskDec
  \/ TaskCount
  \/ TriggerReviewArrive
  \/ TriggerReviewFetchErr
  \/ TriggerReviewFetchOk
  \/ TriggerReviewMarkSeen
  \/ ReviewStatusLock
  \/ ReviewStatusRead


Spec == Init /\ [][Next]_vars

\* ------------------------------------------------------------------ claims
\* loop positions at which the loop is working on the repo seeded_repos[ri]
RepoPcs == {"poll_fetch", "poll_lock", "poll_diff", "poll_dispatch",
            "fetch_diff", "exec_start", "executing", "exec_dec", "exec_count"}
\* loop positions between the end of the diff and the end of the new PRs
ItemPcs == {"poll_dispatch", "fetch_diff", "exec_start", "executing",
            "exec_dec", "exec_count"}
PollPcs == RepoPcs \cup {"tick"}

\* C1: the poll loop dispatches each item id of a scope at most once in one
\* loop lifetime, whatever the fetches return (ids repeated in one fetch,
\* ids that reappear at a later tick).
C1_AtMostOnce ==
  \A r \in RepoSet, n \in PRs : dispatch_count[r][n] <= 1

\* an id dispatched at an earlier tick is listed twice by the fetch of this
\* tick, and the loop is through with this fetch without dispatching it again
C1_Witness ==
  /\ pc = "poll_dispatch"
  /\ new_prs = <<>>
  /\ dispatched_now = <<>>
  /\ ticks >= 2
  /\ \E n \in PRs : fetched.list = <<n, n>> /\ dispatch_count[CurRepo][n] = 1

\* C2: the membership test and the insertion happen in one critical section
\* under the seen_prs mutex (nobody else changes seen_prs or takes the mutex
\* while the loop is between the test of one id and the end of the diff), and
\* an item is dispatched only while its id is in the SeenSet.
C2_Atomic ==
  /\ [](pc = "poll_diff" => seen_lock = "loop")
  /\ [](pc \in ItemPcs => \A i \in 1..Len(new_prs) : new_prs[i] \in seen_prs[CurRepo])
  /\ [][/\ (pc = "poll_diff" /\ pc' = "poll_diff" /\ prs' = prs)
             => (seen_prs' = seen_prs /\ seen_lock' = seen_lock)
        /\ \A r \in RepoSet, n \in PRs :
             dispatch_count'[r][n] # dispatch_count[r][n]
               => (r \in DOMAIN seen_prs /\ n \in seen_prs[r]
                   /\ r \in DOMAIN seen_prs' /\ n \in seen_prs'[r])]_vars

\* the loop holds the mutex in the middle of the diff, having just inserted a
\* new id, while a manual trigger for the same repo waits for the mutex
C2_Witness ==
  /\ pc = "poll_diff"
  /\ seen_lock = "loop"
  /\ new_prs # <<>>
  /\ prs # <<>>
  /\ req.pc = "mark_seen"
  /\ req.repo = CurRepo

\* C3 (as claimed): a scope whose seed attempts were exhausted is never
\* fetched in the poll phase and never has an item dispatched by the loop.
C3_UnseededNeverPolled ==
  /\ pc \in RepoPcs => CurRepo \in seed_ok
  /\ \A r \in RepoSet, n \in PRs : dispatch_count[r][n] > 0 => r \in seed_ok

\* C4 (as claimed): an id in the SeenSet of a scope stays there under every
\* later operation (seed success, poll tick, manual trigger).
C4_NeverUnlearned ==
  [][\A r \in DOMAIN seen_prs :
       r \in DOMAIN seen_prs' /\ seen_prs[r] \subseteq seen_prs'[r]]_vars

\* C5 (as claimed): an item the poll phase finds new is dispatched exactly
\* once: when the loop ends its iteration for the item, a run or executor
\* invocation has been started for it once, whatever the preparation steps did.
C5_ExactlyOnce ==
  [][(pc \in ItemPcs /\ new_prs # <<>> /\ new_prs' = Tail(new_prs))
       => dispatch_count'[CurRepo][Head(new_prs)] = 1]_vars

\* the steps of the loop itself; the return of executor.execute is the
\* completion of a run, not a step the loop can take on its own
LoopStep ==
  \/ StartPoller \/ SeedFetchOk \/ SeedInsert \/ SeedFetchErr \/ SeedSleepDone
  \/ SeedNext \/ FilterSeeded \/ Tick \/ PollFetchOk \/ PollFetchErr \/ PollLock
  \/ PollDiffStep \/ PollUnlock \/ PollerSpawn \/ PollDispatchDone
  \/ TriggerPostComment \/ TriggerFetchDiffOk \/ TriggerFetchDiffErr
  \/ TriggerExecuteStart \/ TriggerDec \/ TriggerCount
LoopWaitsForLock == pc \in {"seed_lock", "filter", "poll_lock"} /\ seen_lock # "free"
LoopLifetimeOver == pc = "tick" /\ ticks = MaxTicks

\* C6 (as claimed): a dispatched run executes concurrently with the loop:
\* while a run is in flight the loop can take its next step (it waits at most
\* for the seen_prs mutex), so it reaches its next scope and tick without
\* waiting for the run to finish.
C6_NonBlocking ==
  active_reviews > 0 => (ENABLED LoopStep) \/ LoopWaitsForLock \/ LoopLifetimeOver

\* the delays of the seed retry schedule, in seconds
SeedDelays == <<2, 4, 8, 16, 32, 32, 32, 32, 32>>

C8_PollsExactlySeeded ==
  pc \in PollPcs => seeded_repos = SelectSeq(Repos, LAMBDA r : r \in seed_ok)

\* the step of the loop that handles a failed poll fetch
PollErrStep ==
  /\ pc = "poll_fetch"
  /\ pc' # "poll_lock"
  /\ <<pc, ri>>' # <<pc, ri>>

\* what that step may do
PollErrEffect ==
  /\ seen_prs' = seen_prs
  /\ dispatch_count' = dispatch_count
  /\ tasks' = tasks
  /\ active_reviews' = active_reviews
  /\ ticks' = ticks
  /\ IF ri < Len(seeded_repos)
       THEN pc' = "poll_fetch" /\ ri' = ri + 1
       ELSE pc' = "tick"

\* C9: a failed poll fetch leaves the SeenSet unchanged and dispatches
\* nothing; the loop goes on to the next seeded scope of the same tick, or to
\* the next tick after the last scope, and every tick starts again at the
\* first seeded scope over the same list of scopes.
C9_FetchErrorAbsorbed ==
  [][/\ PollErrStep => PollErrEffect
     /\ pc \in PollPcs => seeded_repos' = seeded_repos
     /\ (ticks' # ticks /\ seeded_repos # <<>>) => (pc' = "poll_fetch" /\ ri' = 1)]_vars

\* the fetch of the first scope failed at this tick and the loop is about to
\* fetch the second scope
C9_Witness ==
  /\ pc = "poll_fetch"
  /\ ri = 2
  /\ fetched = FetchErr

\* position of the first occurrence of x in s
FirstIndex(s, x) == CHOOSE i \in 1..Len(s) : s[i] = x /\ \A j \in 1..(i - 1) : s[j] # x

\* C10: within one scope and one tick the new items are dispatched in the
\* order in which the fetch result lists them.
C10_DispatchOrder ==
  /\ \A i \in 1..Len(dispatched_now) : dispatched_now[i] \in Range(fetched.list)
  /\ \A i, j \in 1..Len(dispatched_now) :
       i < j => FirstIndex(fetched.list, dispatched_now[i])
                  < FirstIndex(fetched.list, dispatched_now[j])

\* two items of one fetch were dispatched, the larger number first
C10_Witness ==
  /\ Len(dispatched_now) = 2
  /\ dispatched_now[1] > dispatched_now[2]
  /\ fetched.list = dispatched_now

\* =========================================================================
\* flows/graph.rs: build_adjacency, topo_sort, compute_levels
\* =========================================================================
MaxNodes == 3       \* node ids are 1..MaxNodes; a flow has at most MaxNodes nodes
MaxEdges == 3       \* longest edge list

NodeIds == 1..MaxNodes
\* Node.id is unique within a flow: the node lists are the duplicate-free ones
NodeLists == {s \in SeqsUpTo(NodeIds, MaxNodes) : Cardinality(Range(s)) = Len(s)}
\* an Edge names any two ids, present in `nodes` or not
EdgeSet == [source : NodeIds, target : NodeIds]
EdgeLists == SeqsUpTo(EdgeSet, MaxEdges)

\* the orders a HashMap can iterate the elements of S in: any
Perms(S) == {s \in [1..Cardinality(S) -> S] : Range(s) = S}

\* `map.entry(k).or_default().push(v)`
PushEntry_Front(m, k, v) ==
  [x \in (DOMAIN m) \cup {k} |->
     IF x = k THEN <<v>> \o (IF k \in DOMAIN m THEN m[k] ELSE <<>>) ELSE m[x]]
PushEntry(m, k, v) ==
  [x \in (DOMAIN m) \cup {k} |->
     IF x = k THEN Append(IF k \in DOMAIN m THEN m[k] ELSE <<>>, v) ELSE m[x]]

\* `node_ids.contains(source) && node_ids.contains(target)`
EdgePresent_Any(e, node_ids) == TRUE
EdgePresent(e, node_ids) == e.source \in node_ids /\ e.target \in node_ids

\* `for edge in edges { ... }` of build_adjacency
RECURSIVE AddEdges(_, _, _)
AddEdges(adj, es, node_ids) ==
  IF es = <<>> THEN adj
  ELSE LET e == Head(es)
           next == IF EdgePresent(e, node_ids)
                   THEN [children |-> PushEntry(adj.children, e.source, e.target),
                         parents |-> PushEntry(adj.parents, e.target, e.source)]
                   ELSE adj
       IN AddEdges(next, Tail(es), node_ids)

build_adjacency(ns, es) ==
  AddEdges([children |-> [n \in Range(ns) |-> <<>>],
            parents |-> [n \in Range(ns) |-> <<>>]], es, Range(ns))

\* `parents.get(&node.id).map_or(0, |p| p.len())`
InDegree(ns, ps) == [n \in Range(ns) |-> IF n \in DOMAIN ps THEN Len(ps[n]) ELSE 0]

\* `if *deg == 0` after the decrement
BecomesReady_Early(deg) == deg <= 1
BecomesReady(deg) == deg = 0

\* `for next in neighbors { ... }`: st = [deg, q, panic]
RECURSIVE Relax(_, _)
Relax(st, neighbors) ==
  IF neighbors = <<>> \/ st.panic THEN st
  ELSE LET next == Head(neighbors)
       IN IF next \notin DOMAIN st.deg \/ st.deg[next] = 0
          THEN [st EXCEPT !.panic = TRUE]     \* unwrap on None / usize underflow
          ELSE LET d == st.deg[next] - 1
               IN Relax([deg |-> [st.deg EXCEPT ![next] = d],
                         q |-> IF BecomesReady(d) THEN Append(st.q, next) ELSE st.q,
                         panic |-> FALSE],
                        Tail(neighbors))

\* `anyhow::bail!("flow graph has a cycle ({} of {} nodes sorted)", ...)`
CycleError_Ok(s, ns) == [ok |-> TRUE, sorted |-> s]
CycleError_Swapped(s, ns) ==
  [ok |-> FALSE, sorted_count |-> Len(ns), total_count |-> Len(s)]
CycleError(s, ns) ==
  [ok |-> FALSE, sorted_count |-> Len(s), total_count |-> Len(ns)]

GraphInit ==
  /\ nodes \in NodeLists
  /\ edges \in EdgeLists
  /\ children = <<>>
  /\ parents = <<>>
  /\ in_degree = <<>>
  /\ queue = <<>>
  /\ sorted = <<>>
  /\ gpc = "topo_sort"
  /\ topo_result = [ok |-> TRUE, sorted |-> <<>>]
  /\ lsorted = <<>>
  /\ levels = <<>>

\* topo_sort up to its while loop: build_adjacency, in_degree, queue
TopoStart ==
  /\ gpc = "topo_sort"
  /\ LET adj == build_adjacency(nodes, edges)
         deg == InDegree(nodes, adj.parents)
     IN /\ children' = adj.children
        /\ parents' = adj.parents
        /\ in_degree' = deg
        /\ \E q \in Perms({n \in DOMAIN deg : deg[n] = 0}) : queue' = q
  /\ sorted' = <<>>
  /\ gpc' = "loop"
  /\ UNCHANGED <<nodes, edges, topo_result, lsorted, levels>>
  /\ UNCHANGED notGraph

\* one iteration of `while let Some(node_id) = queue.pop_front()`
TopoPop ==
  /\ gpc = "loop"
  /\ queue # <<>>
  /\ LET node_id == Head(queue)
         st == Relax([deg |-> in_degree, q |-> Tail(queue), panic |-> FALSE],
                     IF node_id \in DOMAIN children THEN children[node_id] ELSE <<>>)
     IN /\ sorted' = Append(sorted, node_id)
        /\ in_degree' = st.deg
        /\ queue' = st.q
        /\ gpc' = IF st.panic THEN "panic" ELSE "loop"
  /\ UNCHANGED <<nodes, edges, children, parents, topo_result, lsorted, levels>>
  /\ UNCHANGED notGraph

\* the queue is empty: `if sorted.len() != nodes.len() { bail } Ok(sorted)`
TopoReturn ==
  /\ gpc = "loop"
  /\ queue = <<>>
  /\ topo_result' = IF Len(sorted) # Len(nodes) THEN CycleError(sorted, nodes)
                    ELSE [ok |-> TRUE, sorted |-> sorted]
  /\ gpc' = "returned"
  /\ UNCHANGED <<nodes, edges, children, parents, in_degree, queue, sorted,
                 lsorted, levels>>
  /\ UNCHANGED notGraph

\* ---------------------------------------------------------- compute_levels
Max(S) == CHOOSE m \in S : \A x \in S : x <= m

Position(s, x) == CHOOSE i \in 1..Len(s) : s[i] = x

\* the arguments compute_levels is meant for: any topological order of the flow
ValidOrders(ns, ps) ==
  {s \in Perms(Range(ns)) :
     \A n \in Range(ns) : \A p \in Range(ps[n]) : Position(s, p) < Position(s, n)}

\* `.max().map(|m| m + 1)`
OneAbove_Same(m) == m
OneAbove(m) == m + 1

\* the `level` of node_id: parents.get(..).map(..filter_map(node_level.get)..)
LevelFor(node_id, ps, node_level) ==
  IF node_id \notin DOMAIN ps THEN 0
  ELSE LET known == {node_level[p] : p \in Range(ps[node_id]) \cap DOMAIN node_level}
       IN IF known = {} THEN 0 ELSE OneAbove(Max(known))

\* first loop of compute_levels: st = [node_level, max_level]
RECURSIVE AssignLevels(_, _, _)
AssignLevels(st, s, ps) ==
  IF s = <<>> THEN st
  ELSE LET node_id == Head(s)
           level == LevelFor(node_id, ps, st.node_level)
       IN AssignLevels([node_level |-> MapInsert(st.node_level, node_id, level),
                        max_level |-> IF level > st.max_level THEN level
                                      ELSE st.max_level],
                       Tail(s), ps)

\* `levels[level].push(node_id.clone())`
PushLevel_Front(lv, level, node_id) == [lv EXCEPT ![level + 1] = <<node_id>> \o @]
PushLevel(lv, level, node_id) == [lv EXCEPT ![level + 1] = Append(@, node_id)]

\* second loop of compute_levels
RECURSIVE FillLevels(_, _, _)
FillLevels(lv, s, node_level) ==
  IF s = <<>> THEN lv
  ELSE FillLevels(PushLevel(lv, node_level[Head(s)], Head(s)), Tail(s), node_level)

compute_levels(s, ps) ==
  LET st == AssignLevels([node_level |-> <<>>, max_level |-> 0], s, ps)
  IN FillLevels([l \in 1..(st.max_level + 1) |-> <<>>], s, st.node_level)

\* the flow runner's step after a successful topo_sort
ComputeLevels ==
  /\ gpc = "returned"
  /\ topo_result.ok
  /\ \E s \in ValidOrders(nodes, parents) :
       /\ lsorted' = s
       /\ levels' = compute_levels(s, parents)
  /\ gpc' = "done"
  /\ UNCHANGED <<nodes, edges, children, parents, in_degree, queue, sorted,
                 topo_result>>
  /\ UNCHANGED notGraph

PollIdle ==
  /\ impl = "none"
  /\ github_token = FALSE
  /\ seen_prs = <<>>
  /\ seen_lock = "free"
  /\ active_reviews = 0
  /\ reviews_completed = 0
  /\ pc = "idle"
  /\ ri = 1
  /\ attempt = 0
  /\ seeded_repos = <<>>
  /\ prs = <<>>
  /\ new_prs = <<>>
  /\ result = TRUE
  /\ ticks = 0
  /\ tasks = [p \in TaskPcs |-> 0]
  /\ req = NoReq
  /\ nreq = 0
  /\ slept = <<>>
  /\ seed_ok = {}
  /\ fetched = NoFetch
  /\ dispatched_now = <<>>
  /\ dispatch_count = [r \in RepoSet |-> [n \in PRs |-> 0]]
  /\ accepted = {}

InitGraph == GraphInit /\ PollIdle /\ MergeIdle /\ TwinIdle /\ OthersIdle

NextGraph ==
  \/ TopoStart
  \/ TopoPop
  \/ TopoReturn
  \/ ComputeLevels

SpecGraph == InitGraph /\ [][NextGraph]_vars

\* ------------------------------------------------- claims on flows/graph.rs
\* the flow as a graph, read off the inputs `nodes` and `edges`
IsPresent(e) == e.source \in Range(nodes) /\ e.target \in Range(nodes)
PresentEdges == SelectSeq(edges, IsPresent)
Succ(n) == {PresentEdges[i].target :
              i \in {j \in 1..Len(PresentEdges) : PresentEdges[j].source = n}}

RECURSIVE Closure(_)
Closure(S) ==
  LET T == S \cup UNION {Succ(n) : n \in S}
  IN IF T = S THEN S ELSE Closure(T)

Reach(n) == Closure(Succ(n))              \* reachable by one edge or more
OnCycle(n) == n \in Reach(n)
HasCycle == \E n \in Range(nodes) : OnCycle(n)
Tainted(n) == \E c \in Range(nodes) : OnCycle(c) /\ (n = c \/ n \in Reach(c))
TopoReturned == gpc \in {"returned", "done"}
AdjacencyBuilt == gpc \in {"loop", "returned", "done", "panic"}

\* C12: on a valid flow (unique ids, no cycle among the present nodes)
\* topo_sort returns Ok with every node id exactly once, and the source of
\* every edge between present nodes before its target.
C12_TopoSortValid ==
  (TopoReturned /\ ~HasCycle) =>
    /\ topo_result.ok
    /\ Len(topo_result.sorted) = Len(nodes)
    /\ Range(topo_result.sorted) = Range(nodes)
    /\ \A i \in 1..Len(PresentEdges) :
         Position(topo_result.sorted, PresentEdges[i].source)
           < Position(topo_result.sorted, PresentEdges[i].target)

\* a three-node flow with a fan-in node was sorted
C12_Witness ==
  /\ TopoReturned /\ ~HasCycle /\ Len(nodes) = 3
  /\ \E n \in Range(nodes) : Cardinality(Range(parents[n])) = 2

\* C13: topo_sort returns the cycle error exactly when the graph over the
\* present nodes has a cycle (a self-loop is one); the error reports
\* sorted_count < total_count, total_count the number of nodes and
\* sorted_count the number of nodes neither on nor downstream of a cycle.
C13_CycleError ==
  TopoReturned =>
    /\ (~topo_result.ok) <=> HasCycle
    /\ (~topo_result.ok) =>
         /\ topo_result.sorted_count < topo_result.total_count
         /\ topo_result.total_count = Len(nodes)
         /\ topo_result.sorted_count
              = Cardinality({n \in Range(nodes) : ~Tainted(n)})

\* a self-loop was rejected while one node upstream of it was sorted
C13_Witness ==
  /\ TopoReturned /\ ~topo_result.ok
  /\ topo_result.sorted_count = 1 /\ topo_result.total_count = 3
  /\ \E n \in Range(nodes) : n \in Succ(n)

IsRoot(n) == parents[n] = <<>>

\* C14: topo_sort is stable: the nodes of in-degree zero are enqueued in the
\* order of the `nodes` list, so the roots appear in the result in their
\* declaration order (and the result is a function of the input).
C14_Stable ==
  (TopoReturned /\ topo_result.ok) =>
    SelectSeq(topo_result.sorted, IsRoot) = SelectSeq(nodes, IsRoot)

InALevel(n) == \E i \in 1..Len(levels) : n \in Range(levels[i])
LevelOf(n) == (CHOOSE i \in 1..Len(levels) : n \in Range(levels[i])) - 1

\* C15: compute_levels gives each node of a valid topological order the
\* level 1 + max(levels of its parents), 0 without parents; hence every edge
\* goes from a node to a node of strictly higher level.
C15_Levels ==
  gpc = "done" =>
    /\ \A n \in Range(lsorted) :
         /\ InALevel(n)
         /\ LevelOf(n) = IF parents[n] = <<>> THEN 0
                         ELSE 1 + Max({LevelOf(p) : p \in Range(parents[n])})
    /\ \A i \in 1..Len(PresentEdges) :
         LevelOf(PresentEdges[i].source) < LevelOf(PresentEdges[i].target)

\* a node whose parents sit on different levels got its level
C15_Witness ==
  /\ gpc = "done"
  /\ \E n \in Range(lsorted) : \E p, q \in Range(parents[n]) :
       LevelOf(p) < LevelOf(q) /\ LevelOf(n) = 2

RECURSIVE Concat(_)
Concat(ss) == IF ss = <<>> THEN <<>> ELSE Head(ss) \o Concat(Tail(ss))

\* C16: compute_levels only regroups: the levels concatenated hold every
\* node of `sorted` exactly once, and each level lists its nodes in the
\* relative order they have in `sorted`.
C16_Regroup ==
  gpc = "done" =>
    /\ Len(Concat(levels)) = Len(lsorted)
    /\ Range(Concat(levels)) = Range(lsorted)
    /\ \A i \in 1..Len(levels) :
         levels[i] = SelectSeq(lsorted, LAMBDA n : n \in Range(levels[i]))

\* two levels, one of them holding two nodes that are not in id order
C16_Witness ==
  /\ gpc = "done" /\ Len(levels) = 2
  /\ \E i \in 1..Len(levels) : Len(levels[i]) = 2 /\ levels[i][1] > levels[i][2]

TargetsOf(n) ==
  LET es == SelectSeq(edges, LAMBDA e : IsPresent(e) /\ e.source = n)
  IN [i \in 1..Len(es) |-> es[i].target]
SourcesOf(n) ==
  LET es == SelectSeq(edges, LAMBDA e : IsPresent(e) /\ e.target = n)
  IN [i \in 1..Len(es) |-> es[i].source]

\* C17: build_adjacency returns children and parents maps with an entry for
\* every node id and no other, listing neighbours in edge order, holding an
\* edge only when both endpoints are present nodes; an edge with a missing
\* endpoint is dropped: topo_sort runs as on the flow without it, without a
\* panic and without a cycle error that the present edges do not cause.
C17_Adjacency ==
  AdjacencyBuilt =>
    /\ DOMAIN children = Range(nodes)
    /\ DOMAIN parents = Range(nodes)
    /\ \A n \in Range(nodes) :
         children[n] = TargetsOf(n) /\ parents[n] = SourcesOf(n)
    /\ [children |-> children, parents |-> parents]
         = build_adjacency(nodes, PresentEdges)
    /\ gpc # "panic"
    /\ (TopoReturned /\ ~topo_result.ok) => HasCycle

\* a flow with a dangling edge next to a present one was sorted
C17_Witness ==
  /\ TopoReturned /\ topo_result.ok
  /\ PresentEdges # <<>>
  /\ \E i \in 1..Len(edges) : ~IsPresent(edges[i])

\* C18: duplicate edges collapse: a (source, target) pair listed more than
\* once yields one parent/child relation, the source once in the target's
\* parents list and the target once in the source's children list.
C18_DuplicatesCollapse ==
  AdjacencyBuilt =>
    \A n \in Range(nodes) :
      /\ Cardinality(Range(parents[n])) = Len(parents[n])
      /\ Cardinality(Range(children[n])) = Len(children[n])

\* =========================================================================
\* flows/graph.rs: NodeOutput::merge
\* =========================================================================
MaxOutputs == 3     \* longest list of parent outputs

\* NodeOutput: Items(Vec<ContentItem>) | Text(String, Option<ExecutionResult>)
\*             | Context(HashMap<String, String>) | Empty | Failed
\* a String is its sequence of characters, a HashMap a function on its keys
ItemLists == {<<>>, <<"A">>, <<"B">>}
Strings == {<<>>, <<"p">>}
Metas == {"None", "Some"}
ContextMaps == UNION {[K -> {"1", "2"}] : K \in {{}, {"a"}}} \cup {[k \in {"b"} |-> "2"]}
Items(v) == [variant |-> "Items", items |-> v]
Text(t, meta) == [variant |-> "Text", text |-> t, meta |-> meta]
Context(map) == [variant |-> "Context", map |-> map]
Empty == [variant |-> "Empty"]
Failed == [variant |-> "Failed"]
NodeOutputs ==
  {Items(v) : v \in ItemLists} \cup {Text(t, m) : t \in Strings, m \in Metas}
    \cup {Context(c) : c \in ContextMaps} \cup {Empty, Failed}

\* `outputs.iter().any(|o| matches!(o, NodeOutput::Failed))`
AnyFailed_First(os) == os[1].variant = "Failed"
AnyFailed(os) == \E i \in 1..Len(os) : os[i].variant = "Failed"

\* `context.extend(map)`: later overwrites earlier on key conflict
Extend_FirstWins(context, map) ==
  [k \in (DOMAIN context) \cup (DOMAIN map) |->
     IF k \in DOMAIN context THEN context[k] ELSE map[k]]
Extend(context, map) ==
  [k \in (DOMAIN context) \cup (DOMAIN map) |->
     IF k \in DOMAIN map THEN map[k] ELSE context[k]]

\* `items.append(&mut v)`
AppendItems_Front(items, v) == v \o items
AppendItems(items, v) == items \o v

\* `for output in outputs { match output { ... } }` with Empty pushed as a text
RECURSIVE Accumulate_EmptyAsText(_, _)
Accumulate_EmptyAsText(acc, os) ==
  IF os = <<>> THEN acc
  ELSE LET o == Head(os)
           next ==
             CASE o.variant = "Items" ->
                    [acc EXCEPT !.has_items = TRUE, !.items = AppendItems(@, o.items)]
               [] o.variant = "Text" ->
                    [acc EXCEPT !.has_text = TRUE, !.texts = Append(@, o.text)]
               [] o.variant = "Context" ->
                    [acc EXCEPT !.has_context = TRUE, !.context = Extend(@, o.map)]
               [] o.variant = "Empty" ->
                    [acc EXCEPT !.has_text = TRUE, !.texts = Append(@, <<>>)]
               [] OTHER -> acc
       IN Accumulate_EmptyAsText(next, Tail(os))

\* `for output in outputs { match output { ... } }`
RECURSIVE Accumulate(_, _)
Accumulate(acc, os) ==
  IF os = <<>> THEN acc
  ELSE LET o == Head(os)
           next ==
             CASE o.variant = "Items" ->
                    [acc EXCEPT !.has_items = TRUE, !.items = AppendItems(@, o.items)]
               [] o.variant = "Text" ->
                    [acc EXCEPT !.has_text = TRUE, !.texts = Append(@, o.text)]
               [] o.variant = "Context" ->
                    [acc EXCEPT !.has_context = TRUE, !.context = Extend(@, o.map)]
               [] OTHER -> acc
       IN Accumulate(next, Tail(os))

\* `texts.join("\n")`
RECURSIVE Join_Trailing(_)
Join_Trailing(texts) ==
  IF texts = <<>> THEN <<>>
  ELSE texts[1] \o <<"\n">> \o Join_Trailing(Tail(texts))
RECURSIVE Join(_)
Join(texts) ==
  IF texts = <<>> THEN <<>>
  ELSE IF Len(texts) = 1 THEN texts[1]
  ELSE texts[1] \o <<"\n">> \o Join(Tail(texts))

\* Priority: Items > Text > Context > Empty
Priority_TextFirst(acc) ==
  IF acc.has_text THEN Text(Join(acc.texts), "None")
  ELSE IF acc.has_items THEN Items(acc.items)
  ELSE IF acc.has_context THEN Context(acc.context)
  ELSE Empty
Priority(acc) ==
  IF acc.has_items THEN Items(acc.items)
  ELSE IF acc.has_text THEN Text(Join(acc.texts), "None")
  ELSE IF acc.has_context THEN Context(acc.context)
  ELSE Empty

MergeInit ==
  /\ outputs \in SeqsUpTo(NodeOutputs, MaxOutputs)
  /\ mpc = "merge"
  /\ merged = NoOutput

\* `if outputs.is_empty() { return NodeOutput::Empty; }`
MergeEmptyList ==
  /\ mpc = "merge"
  /\ outputs = <<>>
  /\ merged' = Empty
  /\ mpc' = "done"
  /\ UNCHANGED <<outputs, notMerge>>

\* `if outputs.iter().any(..Failed..) { return NodeOutput::Failed; }`
MergeFailed ==
  /\ mpc = "merge"
  /\ outputs # <<>>
  /\ AnyFailed(outputs)
  /\ merged' = Failed
  /\ mpc' = "done"
  /\ UNCHANGED <<outputs, notMerge>>

\* the loop over the outputs and the choice of the result variant
MergeFold ==
  /\ mpc = "merge"
  /\ outputs # <<>>
  /\ ~AnyFailed(outputs)
  /\ merged' = Priority(Accumulate([items |-> <<>>, texts |-> <<>>, context |-> <<>>,
                                    has_items |-> FALSE, has_text |-> FALSE,
                                    has_context |-> FALSE], outputs))
  /\ mpc' = "done"
  /\ UNCHANGED <<outputs, notMerge>>

\* NodeOutput::merge as a function of its argument
merge(os) ==
  IF os = <<>> THEN Empty
  ELSE IF AnyFailed(os) THEN Failed
  ELSE Priority(Accumulate([items |-> <<>>, texts |-> <<>>, context |-> <<>>,
                            has_items |-> FALSE, has_text |-> FALSE,
                            has_context |-> FALSE], os))

InitMerge == MergeInit /\ PollIdle /\ GraphIdle /\ TwinIdle /\ OthersIdle

NextMerge ==
  \/ MergeEmptyList
  \/ MergeFailed
  \/ MergeFold

SpecMerge == InitMerge /\ [][NextMerge]_vars

\* ---------------------------------------------- claims on NodeOutput::merge
HasVariant(v) == \E i \in 1..Len(outputs) : outputs[i].variant = v
OfVariant(v) == SelectSeq(outputs, LAMBDA o : o.variant = v)

\* C19: a list of outputs holding a Failed, at any position and next to any
\* other variants, merges to Failed.
C19_FailedShortCircuit ==
  (mpc = "done" /\ HasVariant("Failed")) => merged = Failed

\* a Failed in last place, after an Items and a Text, was merged
C19_Witness ==
  /\ mpc = "done" /\ Len(outputs) = 3
  /\ outputs[1].variant = "Items" /\ outputs[2].variant = "Text"
  /\ outputs[3].variant = "Failed"

\* the value the last Context output binding k gives it
LastBinding(k) ==
  LET cs == OfVariant("Context")
      i == CHOOSE j \in 1..Len(cs) :
             k \in DOMAIN cs[j].map /\ \A l \in (j + 1)..Len(cs) : k \notin DOMAIN cs[l].map
  IN cs[i].map[k]

\* C20: without a Failed the result is Items if the list holds an Items,
\* else Text if it holds a Text, else Context if it holds a Context, else
\* Empty (so for the empty list); the result is made of the values of the
\* chosen variant alone: the item lists concatenated, the texts joined by
\* newlines without metadata, the maps folded with the last writer winning.
C20_Precedence ==
  (mpc = "done" /\ ~HasVariant("Failed")) =>
    IF HasVariant("Items")
    THEN merged = Items(Concat([i \in 1..Len(OfVariant("Items")) |->
                                  OfVariant("Items")[i].items]))
    ELSE IF HasVariant("Text")
    THEN /\ merged.variant = "Text"
         /\ merged.meta = "None"
         /\ merged.text = Join([i \in 1..Len(OfVariant("Text")) |->
                                  OfVariant("Text")[i].text])
    ELSE IF HasVariant("Context")
    THEN /\ merged.variant = "Context"
         /\ DOMAIN merged.map
              = UNION {DOMAIN (OfVariant("Context")[i].map) :
                         i \in 1..Len(OfVariant("Context"))}
         /\ \A k \in DOMAIN merged.map : merged.map[k] = LastBinding(k)
    ELSE merged = Empty

\* a Context, a Text and an Items were merged, the Items coming last
C20_Witness ==
  /\ mpc = "done" /\ Len(outputs) = 3
  /\ outputs[1].variant = "Context" /\ outputs[2].variant = "Text"
  /\ outputs[3].variant = "Items"
  /\ merged.variant = "Items"

\* the items of the Items outputs of os, in the order of os
RECURSIVE ItemsInOrder(_)
ItemsInOrder(os) ==
  IF os = <<>> THEN <<>>
  ELSE (IF Head(os).variant = "Items" THEN Head(os).items ELSE <<>>)
         \o ItemsInOrder(Tail(os))

\* C21: when merge returns Items, its list is the item lists of the Items
\* inputs concatenated in input order: nothing dropped, doubled or reordered.
C21_ItemsConcat ==
  (mpc = "done" /\ merged.variant = "Items") => merged.items = ItemsInOrder(outputs)

\* Items(B), a Text and Items(A) were merged
C21_Witness ==
  /\ mpc = "done" /\ Len(outputs) = 3
  /\ outputs[1] = Items(<<"B">>) /\ outputs[2].variant = "Text"
  /\ outputs[3] = Items(<<"A">>)
  /\ merged.variant = "Items"

\* the Text payloads of os in the order of os, a newline before each but the first
RECURSIVE TextsJoined(_, _)
TextsJoined(os, first) ==
  IF os = <<>> THEN <<>>
  ELSE IF Head(os).variant = "Text"
       THEN (IF first THEN <<>> ELSE <<"\n">>) \o Head(os).text
              \o TextsJoined(Tail(os), FALSE)
       ELSE TextsJoined(Tail(os), first)

\* C22: when merge returns Text, its string is the Text payloads in input
\* order with exactly one newline between consecutive payloads, and it
\* carries no ExecutionResult, also for a single Text input that carried one.
C22_TextJoin ==
  (mpc = "done" /\ merged.variant = "Text") =>
    /\ merged.text = TextsJoined(outputs, TRUE)
    /\ merged.meta = "None"

\* a single Text carrying an ExecutionResult was merged
C22_Witness ==
  /\ mpc = "done" /\ Len(outputs) = 1
  /\ outputs[1] = Text(<<"p">>, "Some")
  /\ merged.variant = "Text"

\* the Context outputs binding k, as positions in outputs
Binders(k) ==
  {i \in 1..Len(outputs) : outputs[i].variant = "Context" /\ k \in DOMAIN outputs[i].map}

\* C23: when merge returns Context, its key set is the union of the inputs'
\* key sets and each key has the value of the last input that binds it.
C23_ContextFold ==
  (mpc = "done" /\ merged.variant = "Context") =>
    /\ \A k \in {"a", "b"} : (k \in DOMAIN merged.map) <=> (Binders(k) # {})
    /\ \A k \in DOMAIN merged.map : merged.map[k] = outputs[Max(Binders(k))].map[k]

\* two maps binding the same key differently were merged
C23_Witness ==
  /\ mpc = "done" /\ Len(outputs) = 3
  /\ outputs[1].variant = "Context" /\ outputs[3].variant = "Context"
  /\ outputs[2].variant = "Context"
  /\ "a" \in DOMAIN outputs[1].map /\ "a" \in DOMAIN outputs[3].map
  /\ outputs[1].map["a"] # outputs[3].map["a"]
  /\ "b" \in DOMAIN outputs[2].map

NotEmpty(o) == o.variant # "Empty"

\* C24: Empty is neutral: the result of merge is the result for the list
\* with its Empty values removed (for a list of Empty values alone, the
\* result for the empty list, Empty).
C24_EmptyNeutral ==
  mpc = "done" => merged = merge(SelectSeq(outputs, NotEmpty))

\* a Text between two Empty values was merged
C24_Witness ==
  /\ mpc = "done" /\ Len(outputs) = 3
  /\ outputs[1] = Empty /\ outputs[2].variant = "Text" /\ outputs[3] = Empty
  /\ merged = Text(outputs[2].text, "None")

\* =========================================================================
\* tasks/triggers/github.rs: two triggers on one TaskState
\* GithubPrTrigger keeps no SeenSet of its own: seed and poll_loop go through
\* task_state.seen_prs, an Arc<TaskState> handed to the trigger, keyed by the
\* repo's full name alone.  Steps that touch only a trigger's locals are
\* folded into the step before them; a critical section is one step.
\* =========================================================================
MaxTwinTicks == 1   \* interval ticks of each of the two loops

TwinRepo == Repos[1]

InitTwin ==
  /\ task_seen = <<>>
  /\ task_active = 0
  /\ task_completed = 0
  /\ t_pc = [i \in TriggerIds |-> "seed_fetch"]
  /\ t_attempt = [i \in TriggerIds |-> 0]
  /\ t_prs = [i \in TriggerIds |-> <<>>]
  /\ t_new = [i \in TriggerIds |-> <<>>]
  /\ t_seeded = [i \in TriggerIds |-> FALSE]
  /\ t_ticks = [i \in TriggerIds |-> 0]
  /\ t_own_seed = [i \in TriggerIds |-> {}]
  /\ t_seed_ok = [i \in TriggerIds |-> FALSE]
  /\ t_observed = [i \in TriggerIds |-> {}]
  /\ t_picked = [i \in TriggerIds |-> {}]
  /\ PollIdle /\ GraphIdle /\ MergeIdle /\ OthersIdle

\* seed: `attempt += 1`, fetch_open_prs returns Ok(prs)
TwinSeedFetchOk ==
  \E i \in TriggerIds :
    /\ t_pc[i] = "seed_fetch"
    /\ \E list \in FetchResults : t_prs' = [t_prs EXCEPT ![i] = list]
    /\ t_attempt' = [t_attempt EXCEPT ![i] = @ + 1]
    /\ t_pc' = [t_pc EXCEPT ![i] = "seed_insert"]
    /\ UNCHANGED <<task_seen, task_active, task_completed, t_new, t_seeded,
                   t_ticks, t_own_seed, t_seed_ok, t_observed, t_picked>>
    /\ UNCHANGED notTwin

\* seed, Ok arm: `seen.insert(repo.full_name(), pr_numbers)`; seed returns
TwinSeedInsert ==
  \E i \in TriggerIds :
    /\ t_pc[i] = "seed_insert"
    /\ task_seen' = MapInsert(task_seen, TwinRepo, Range(t_prs[i]))
    /\ t_own_seed' = [t_own_seed EXCEPT ![i] = Range(t_prs[i])]
    /\ t_seed_ok' = [t_seed_ok EXCEPT ![i] = TRUE]
    /\ t_prs' = [t_prs EXCEPT ![i] = <<>>]
    /\ t_attempt' = [t_attempt EXCEPT ![i] = 0]      \* seed's local is gone
    /\ t_pc' = [t_pc EXCEPT ![i] = "poll_loop"]
    /\ UNCHANGED <<task_active, task_completed, t_new, t_seeded,
                   t_ticks, t_observed, t_picked>>
    /\ UNCHANGED notTwin

\* seed, Err arm: give up at max_retries, else sleep the backoff and retry
TwinSeedFetchErr ==
  \E i \in TriggerIds :
    /\ t_pc[i] = "seed_fetch"
    /\ IF t_attempt[i] + 1 >= max_retries
       THEN /\ t_attempt' = [t_attempt EXCEPT ![i] = 0]   \* seed's local is gone
            /\ t_pc' = [t_pc EXCEPT ![i] = "poll_loop"]
       ELSE /\ t_attempt' = [t_attempt EXCEPT ![i] = @ + 1]
            /\ t_pc' = [t_pc EXCEPT ![i] = "seed_fetch"]
    /\ UNCHANGED <<task_seen, task_active, task_completed, t_prs, t_new,
                   t_seeded, t_ticks, t_own_seed, t_seed_ok, t_observed, t_picked>>
    /\ UNCHANGED notTwin

\* poll_loop: seeded_repos = the repos with a key in seen_prs
TwinFilterSeeded ==
  \E i \in TriggerIds :
    /\ t_pc[i] = "poll_loop"
    /\ t_seeded' = [t_seeded EXCEPT ![i] = TwinRepo \in DOMAIN task_seen]
    /\ t_pc' = [t_pc EXCEPT ![i] = "tick"]
    /\ UNCHANGED <<task_seen, task_active, task_completed, t_attempt, t_prs,
                   t_new, t_ticks, t_own_seed, t_seed_ok, t_observed, t_picked>>
    /\ UNCHANGED notTwin

\* interval.tick(): the for loop over seeded_repos starts (or is empty)
TwinTick ==
  \E i \in TriggerIds :
    /\ t_pc[i] = "tick"
    /\ t_ticks[i] < MaxTwinTicks
    /\ t_ticks' = [t_ticks EXCEPT ![i] = @ + 1]
    /\ t_pc' = [t_pc EXCEPT ![i] = IF t_seeded[i] THEN "poll_fetch" ELSE "tick"]
    /\ UNCHANGED <<task_seen, task_active, task_completed, t_attempt, t_prs,
                   t_new, t_seeded, t_own_seed, t_seed_ok, t_observed, t_picked>>
    /\ UNCHANGED notTwin

\* poll: fetch_open_prs returns Ok(prs)
TwinPollFetchOk ==
  \E i \in TriggerIds :
    /\ t_pc[i] = "poll_fetch"
    /\ \E list \in FetchResults : t_prs' = [t_prs EXCEPT ![i] = list]
    /\ t_pc' = [t_pc EXCEPT ![i] = "poll_diff"]
    /\ UNCHANGED <<task_seen, task_active, task_completed, t_attempt, t_new,
                   t_seeded, t_ticks, t_own_seed, t_seed_ok, t_observed, t_picked>>
    /\ UNCHANGED notTwin

\* poll: fetch_open_prs returns Err: `continue`
TwinPollFetchErr ==
  \E i \in TriggerIds :
    /\ t_pc[i] = "poll_fetch"
    /\ t_pc' = [t_pc EXCEPT ![i] = "tick"]
    /\ UNCHANGED <<task_seen, task_active, task_completed, t_attempt, t_prs,
                   t_new, t_seeded, t_ticks, t_own_seed, t_seed_ok, t_observed,
                   t_picked>>
    /\ UNCHANGED notTwin

\* `for pr in prs { if !seen_set.contains(..) { insert; new.push } }`:
\* st = [seen_set, new]
RECURSIVE TwinDiff(_, _)
TwinDiff(st, list) ==
  IF list = <<>> THEN st
  ELSE TwinDiff(IF Head(list) \in st.seen_set THEN st
                ELSE [seen_set |-> SeenInsert(st.seen_set, Head(list)),
                      new |-> NewPush(st.new, Head(list))],
                Tail(list))

\* poll: the block that holds the seen_prs lock
TwinPollDiff ==
  \E i \in TriggerIds :
    /\ t_pc[i] = "poll_diff"
    /\ LET seen == EntryOrDefault(task_seen, TwinRepo)
           st == TwinDiff([seen_set |-> seen[TwinRepo], new |-> <<>>], t_prs[i])
       IN /\ task_seen' = [seen EXCEPT ![TwinRepo] = st.seen_set]
          /\ t_new' = [t_new EXCEPT ![i] = st.new]
          /\ t_picked' = [t_picked EXCEPT ![i] = @ \cup Range(st.new)]
    /\ t_observed' = [t_observed EXCEPT ![i] = @ \cup Range(t_prs[i])]
    /\ t_prs' = [t_prs EXCEPT ![i] = <<>>]
    /\ t_pc' = [t_pc EXCEPT ![i] = "dispatch"]
    /\ UNCHANGED <<task_active, task_completed, t_attempt, t_seeded, t_ticks,
                   t_own_seed, t_seed_ok>>
    /\ UNCHANGED notTwin

\* for pr in new_prs: post_comment, fetch_pr_diff fails: `continue`
TwinFetchDiffErr ==
  \E i \in TriggerIds :
    /\ t_pc[i] = "dispatch"
    /\ t_new[i] # <<>>
    /\ t_new' = [t_new EXCEPT ![i] = Tail(@)]
    /\ UNCHANGED <<task_seen, task_active, task_completed, t_pc, t_attempt,
                   t_prs, t_seeded, t_ticks, t_own_seed, t_seed_ok, t_observed,
                   t_picked>>
    /\ UNCHANGED notTwin

\* for pr in new_prs: the diff is fetched, `active += 1`, executor.execute
TwinExecuteStart ==
  \E i \in TriggerIds :
    /\ t_pc[i] = "dispatch"
    /\ t_new[i] # <<>>
    /\ task_active' = task_active + 1
    /\ t_pc' = [t_pc EXCEPT ![i] = "executing"]
    /\ UNCHANGED <<task_seen, task_completed, t_attempt, t_prs, t_new,
                   t_seeded, t_ticks, t_own_seed, t_seed_ok, t_observed, t_picked>>
    /\ UNCHANGED notTwin

\* executor.execute returns: `active -= 1`, `completed += 1` on Ok
TwinExecuteReturn ==
  \E i \in TriggerIds :
    /\ t_pc[i] = "executing"
    /\ task_active' = task_active - 1
    /\ \E ok \in BOOLEAN :
         task_completed' = IF ok THEN task_completed + 1 ELSE task_completed
    /\ t_new' = [t_new EXCEPT ![i] = Tail(@)]
    /\ t_pc' = [t_pc EXCEPT ![i] = "dispatch"]
    /\ UNCHANGED <<task_seen, t_attempt, t_prs, t_seeded, t_ticks, t_own_seed,
                   t_seed_ok, t_observed, t_picked>>
    /\ UNCHANGED notTwin

\* the for loop over new_prs is over: next tick
TwinDispatchDone ==
  \E i \in TriggerIds :
    /\ t_pc[i] = "dispatch"
    /\ t_new[i] = <<>>
    /\ t_pc' = [t_pc EXCEPT ![i] = "tick"]
    /\ UNCHANGED <<task_seen, task_active, task_completed, t_attempt, t_prs,
                   t_new, t_seeded, t_ticks, t_own_seed, t_seed_ok, t_observed,
                   t_picked>>
    /\ UNCHANGED notTwin

NextTwin ==
  \/ TwinSeedFetchOk
  \/ TwinSeedInsert
  \/ TwinSeedFetchErr
  \/ TwinFilterSeeded
  \/ TwinTick
  \/ TwinPollFetchOk
  \/ TwinPollFetchErr
  \/ TwinPollDiff
  \/ TwinFetchDiffErr
  \/ TwinExecuteStart
  \/ TwinExecuteReturn
  \/ TwinDispatchDone

SpecTwin == InitTwin /\ [][NextTwin]_vars

RunnerErr == [ok |-> FALSE]
RunnerResults == {RunnerErr} \cup {[ok |-> TRUE, output |-> o] : o \in {Empty, Items(<<"A">>)}}

InitRun ==
  /\ GraphInit
  /\ rpc = "submitted"
  /\ cur_level = 0
  /\ node_pc = <<>>
  /\ stored = <<>>
  /\ node_status = <<>>
  /\ run_status = "none"
  /\ begin_calls = 0
  /\ finish_calls = 0
  /\ update_calls = <<>>
  /\ invoked = {}
  /\ runners = <<>>
  /\ PollIdle /\ MergeIdle /\ TwinIdle /\ SchedIdle /\ LocksIdle /\ PureIdle

\* step 1: topo_sort returned CycleError (or the flow is empty): InvalidGraph
RunReject ==
  /\ rpc = "submitted"
  /\ gpc = "returned"
  /\ ~topo_result.ok \/ nodes = <<>>
  /\ rpc' = "rejected"
  /\ UNCHANGED <<cur_level, node_pc, stored, node_status, run_status,
                 begin_calls, finish_calls, update_calls, invoked>>
  /\ UNCHANGED <<graphVars, notRun, runners>>

\* step 2: compute_levels, then begin_run records the run as running
RunBegin ==
  /\ rpc = "submitted"
  /\ gpc = "returned"
  /\ topo_result.ok /\ nodes # <<>>
  /\ lsorted' = topo_result.sorted
  /\ levels' = compute_levels(topo_result.sorted, parents)
  /\ gpc' = "done"
  /\ begin_calls' = begin_calls + 1
  /\ run_status' = "running"
  /\ node_pc' = [n \in Range(nodes) |-> "pending"]
  /\ update_calls' = [n \in Range(nodes) |-> 0]
  /\ cur_level' = 1
  /\ rpc' = "running"
  /\ UNCHANGED <<stored, node_status, finish_calls, invoked>>
  /\ UNCHANGED <<nodes, edges, children, parents, in_degree, queue, sorted,
                 topo_result>>
  /\ UNCHANGED <<notRun, runners>>

\* begin_run fails in the store: that run is aborted, nothing of it runs
RunBeginErr ==
  /\ rpc = "submitted"
  /\ gpc = "returned"
  /\ topo_result.ok /\ nodes # <<>>
  /\ begin_calls' = begin_calls + 1
  /\ rpc' = "aborted"
  /\ UNCHANGED <<cur_level, node_pc, stored, node_status, run_status,
                 finish_calls, update_calls, invoked>>
  /\ UNCHANGED <<graphVars, notRun, runners>>

\* step 3a: the stored outputs of the node's parents, in parents-list order
Gather(n) ==
  LET ps == SelectSeq(parents[n], LAMBDA p : p \in DOMAIN stored)
  IN [i \in 1..Len(ps) |-> stored[ps[i]]]

\* update_node(run_id, node_id, status) with the node's output stored
Finish(n, output, status) ==
  /\ stored' = MapInsert(stored, n, output)
  /\ node_status' = MapInsert(node_status, n, status)
  /\ update_calls' = [update_calls EXCEPT ![n] = @ + 1]
  /\ node_pc' = [node_pc EXCEPT ![n] = "done"]

\* steps 3a-3c: a node task of the current level starts: it merges its
\* parents' outputs, is skipped on Failed, else has its runner invoked
NodeStart ==
  /\ rpc = "running"
  /\ \E n \in Range(levels[cur_level]) :
       /\ node_pc[n] = "pending"
       /\ IF merge(Gather(n)) = Failed
          THEN /\ Finish(n, Failed, "skipped")
               /\ UNCHANGED invoked
          ELSE /\ node_pc' = [node_pc EXCEPT ![n] = "running"]
               /\ invoked' = invoked \cup {n}
               /\ UNCHANGED <<stored, node_status, update_calls>>
  /\ UNCHANGED <<rpc, cur_level, run_status, begin_calls, finish_calls>>
  /\ UNCHANGED <<graphVars, notRun, runners>>

\* step 3c: the runner returns: an error stores Failed, recorded as failed
NodeReturn ==
  /\ rpc = "running"
  /\ \E n \in DOMAIN node_pc :
       /\ node_pc[n] = "running"
       /\ \E r \in RunnerResults :
            IF r.ok THEN Finish(n, r.output, "succeeded")
            ELSE Finish(n, Failed, "failed")
  /\ UNCHANGED <<rpc, cur_level, run_status, begin_calls, finish_calls, invoked>>
  /\ UNCHANGED <<graphVars, notRun, runners>>

LevelDone == \A n \in Range(levels[cur_level]) : n \in DOMAIN stored

\* step 4: every node of the level has a stored output: next level
LevelAdvance ==
  /\ rpc = "running"
  /\ LevelDone
  /\ cur_level < Len(levels)
  /\ cur_level' = cur_level + 1
  /\ UNCHANGED <<rpc, node_pc, stored, node_status, run_status, begin_calls,
                 finish_calls, update_calls, invoked>>
  /\ UNCHANGED <<graphVars, notRun, runners>>

Leaves == {n \in Range(nodes) : children[n] = <<>>}
IsFailed(n) == n \in DOMAIN stored /\ stored[n] = Failed
Unsuccessful(n) == n \in DOMAIN node_status /\ node_status[n] \in {"failed", "skipped"}

\* step 5: failed if every leaf is Failed, success if no node failed or was
\* skipped, otherwise partial
TerminalStatus ==
  IF \A n \in Leaves : IsFailed(n) THEN "failed"
  ELSE IF \A n \in Range(nodes) : ~Unsuccessful(n) THEN "success"
  ELSE "partial"

\* step 5: after the last level, finish_run records the terminal status
RunFinish ==
  /\ rpc = "running"
  /\ LevelDone
  /\ cur_level = Len(levels)
  /\ run_status' = TerminalStatus
  /\ finish_calls' = finish_calls + 1
  /\ rpc' = "finished"
  /\ UNCHANGED <<cur_level, node_pc, stored, node_status, begin_calls,
                 update_calls, invoked>>
  /\ UNCHANGED <<graphVars, notRun, runners>>

NextRun ==
  \/ TopoStart
  \/ TopoPop
  \/ TopoReturn
  \/ RunReject
  \/ RunBegin
  \/ RunBeginErr
  \/ NodeStart
  \/ NodeReturn
  \/ LevelAdvance
  \/ RunFinish

SpecRun == InitRun /\ [][NextRun]_vars


\* ---- claims about the flow runner ----
Ancestors(n) == {a \in Range(nodes) : n \in Reach(a)}
Started(n) == n \in DOMAIN node_pc /\ node_pc[n] # "pending"
Accepted == rpc \in {"running", "finished"}
RunStep == NodeStart \/ NodeReturn \/ LevelAdvance \/ RunFinish

\* C25: level barrier: a node starts (gathers its parents' outputs, has its
\* runner invoked) only when every node of every lower level has a stored
\* output, so each of its parents has a stored output when it starts.
C25_LevelBarrier ==
  [][rpc = "running" =>
       \A n \in DOMAIN node_pc :
         (node_pc[n] = "pending" /\ node_pc'[n] # "pending") =>
           /\ \A m \in Range(nodes) :
                LevelOf(m) < LevelOf(n) => m \in DOMAIN stored
           /\ \A p \in Range(parents[n]) : p \in DOMAIN stored]_vars

C25_Witness ==
  /\ rpc = "running"
  /\ \E n \in Range(nodes) :
       /\ Started(n)
       /\ LevelOf(n) >= 1
       /\ Len(levels[LevelOf(n)]) >= 2

\* C26: failure propagation: a node is skipped (runner not invoked, output
\* Failed, status skipped) exactly when the merge of its parents' stored
\* outputs is Failed; every descendant of a failed node ends Failed, every
\* node without a failed ancestor has its runner invoked, and a failed node
\* leaves the run running until it finishes with every node recorded.
C26_FailurePropagation ==
  /\ Accepted =>
       \A n \in DOMAIN node_status :
         /\ (node_status[n] = "skipped") <=> (merge(Gather(n)) = Failed)
         /\ node_status[n] = "skipped" => n \notin invoked /\ stored[n] = Failed
         /\ node_status[n] # "skipped" => n \in invoked
  /\ rpc = "finished" =>
       \A n \in Range(nodes) :
         IF \E a \in Ancestors(n) : node_status[a] = "failed"
         THEN stored[n] = Failed /\ n \notin invoked
         ELSE n \in invoked
  /\ (\E n \in DOMAIN node_status : node_status[n] = "failed") => Accepted
  /\ rpc = "finished" => DOMAIN stored = Range(nodes)

C26_Witness ==
  /\ rpc = "finished"
  /\ \E a, d, u \in Range(nodes) :
       /\ node_status[a] = "failed"
       /\ d \in Reach(a) /\ node_status[d] = "skipped"
       /\ u \notin Reach(a) /\ node_status[u] = "succeeded"

\* C27: terminal run status: failed if every leaf's output is Failed,
\* success if no node failed or was skipped, partial otherwise; the cases
\* are exclusive and exhaustive, and partial is recorded exactly when some
\* but not all leaves ended Failed.
C27_TerminalStatus ==
  rpc = "finished" =>
    LET allFailed == \A n \in Leaves : stored[n] = Failed
        someFailed == \E n \in Leaves : stored[n] = Failed
        noneBad == \A n \in Range(nodes) : node_status[n] = "succeeded"
    IN /\ Leaves # {}
       /\ ~(allFailed /\ noneBad)
       /\ run_status \in {"failed", "success", "partial"}
       /\ (run_status = "failed") <=> allFailed
       /\ (run_status = "success") <=> noneBad
       /\ (run_status = "partial") <=> (someFailed /\ ~allFailed)

C27_Witness ==
  /\ rpc = "finished"
  /\ run_status = "partial"
  /\ \E n \in Leaves : node_status[n] = "skipped"

C29_CycleRejected ==
  HasCycle =>
    /\ begin_calls = 0
    /\ run_status = "none"
    /\ invoked = {}
    /\ stored = <<>>
    /\ rpc \in {"submitted", "rejected"}
    /\ gpc = "returned" => ~topo_result.ok
    /\ (gpc = "returned" /\ rpc = "submitted") => ENABLED RunReject

C29_Witness ==
  /\ HasCycle
  /\ rpc = "rejected"
  /\ \E n \in Range(nodes) : ~Tainted(n)


\* =========================================================================
\* The flow scheduler (spec 4.6, 5).  FlowScheduler is not among the
\* sources; main.rs builds one and awaits start_all() before the server is
\* built, and the route handlers call restart_flow.  The operations are
\* modelled from the spec: the flow -> loop map is guarded by one mutex held
\* for the map operation alone, so each map operation is one step, and the
\* store read and the wait for a loop's termination are steps of their own.
\* =========================================================================
MaxFlows == 2
MaxCallers == 2
MaxLoops == 4
Flows == 1..MaxFlows
Main == 0                       \* main(), which calls start_all()
Handlers == 1..MaxCallers       \* concurrent request handlers
NoLoop == 0

MapRemove(m, k) == [x \in (DOMAIN m) \ {k} |-> m[x]]
IdleCall == [op |-> "none", flow |-> 0, pc |-> "idle", taken |-> NoLoop,
             saw_enabled |-> FALSE, started |-> NoLoop, todo |-> {}]

\* `FlowScheduler::new(..)`, `scheduler.start_all().await`
InitSched ==
  /\ enabled \in [Flows -> BOOLEAN]
  /\ handles = <<>>
  /\ loops = <<>>
  /\ calls = [c \in {Main} \cup Handlers |->
                IF c = Main THEN [IdleCall EXCEPT !.op = "start_all", !.pc = "read"]
                ELSE IdleCall]
  /\ PollIdle /\ GraphIdle /\ MergeIdle /\ TwinIdle /\ RunIdle /\ LocksIdle /\ PureIdle

\* start a loop task for flow f and put its handle in the map (one lock hold)
Spawn(f) ==
  /\ Len(loops) < MaxLoops
  /\ loops' = Append(loops, [flow |-> f, state |-> "alive"])
  /\ handles' = MapInsert(handles, f, Len(loops) + 1)

\* start_all: read all enabled flows from the store
StartAllRead ==
  /\ calls[Main].pc = "read"
  /\ calls' = [calls EXCEPT ![Main].todo = {f \in Flows : enabled[f]},
                            ![Main].pc = "start"]
  /\ UNCHANGED <<enabled, handles, loops>>
  /\ UNCHANGED notSched

\* start_all: for each of them, start a loop task
StartAllStart ==
  /\ calls[Main].pc = "start"
  /\ \E f \in calls[Main].todo :
       /\ Spawn(f)
       /\ calls' = [calls EXCEPT ![Main].todo = @ \ {f}]
  /\ UNCHANGED enabled
  /\ UNCHANGED notSched

StartAllDone ==
  /\ calls[Main].pc = "start"
  /\ calls[Main].todo = {}
  /\ calls' = [calls EXCEPT ![Main].pc = "done"]
  /\ UNCHANGED <<enabled, handles, loops>>
  /\ UNCHANGED notSched

\* a handler calls restart_flow(f) or stop_flow(f); the server is built
\* after start_all has returned (main.rs:114-121)
Call ==
  /\ calls[Main].pc = "done"
  /\ \E c \in Handlers, f \in Flows, o \in {"restart_flow", "stop_flow"} :
       /\ calls[c].pc = "idle"
       /\ calls' = [calls EXCEPT ![c] = [IdleCall EXCEPT !.op = o, !.flow = f,
                                                          !.pc = "take"]]
  /\ UNCHANGED <<enabled, handles, loops>>
  /\ UNCHANGED notSched

\* stop the existing loop, first half: take its handle out of the map
Take ==
  /\ \E c \in Handlers :
       /\ calls[c].pc = "take"
       /\ LET f == calls[c].flow
          IN /\ calls' = [calls EXCEPT
                  ![c].taken = IF f \in DOMAIN handles THEN handles[f] ELSE NoLoop,
                  ![c].pc = "cancel"]
             /\ handles' = MapRemove(handles, f)
  /\ UNCHANGED <<enabled, loops>>
  /\ UNCHANGED notSched

\* stop the existing loop, second half: signal its cancellation token;
\* stop_flow is done then, restart_flow goes on to await the loop
Cancel ==
  /\ \E c \in Handlers :
       /\ calls[c].pc = "cancel"
       /\ LET l == calls[c].taken
          IN loops' = IF l # NoLoop /\ loops[l].state = "alive"
                      THEN [loops EXCEPT ![l].state = "cancelled"]
                      ELSE loops
       /\ calls' = [calls EXCEPT ![c].pc = IF calls[c].op = "stop_flow"
                                            THEN "done" ELSE "await"]
  /\ UNCHANGED <<enabled, handles>>
  /\ UNCHANGED notSched

\* a cancelled loop honours the token at its next await point
LoopTerminate ==
  /\ \E l \in 1..Len(loops) :
       /\ loops[l].state = "cancelled"
       /\ loops' = [loops EXCEPT ![l].state = "terminated"]
  /\ UNCHANGED <<enabled, handles, calls>>
  /\ UNCHANGED notSched

\* restart_flow awaits the old loop's termination
RestartAwait ==
  /\ \E c \in Handlers :
       /\ calls[c].pc = "await"
       /\ calls[c].taken # NoLoop => loops[calls[c].taken].state = "terminated"
       /\ calls' = [calls EXCEPT ![c].pc = "read"]
  /\ UNCHANGED <<enabled, handles, loops>>
  /\ UNCHANGED notSched

\* restart_flow reads the flow from the store: still enabled?
RestartRead ==
  /\ \E c \in Handlers :
       /\ calls[c].pc = "read"
       /\ calls' = [calls EXCEPT ![c].saw_enabled = enabled[calls[c].flow],
                                 ![c].pc = IF enabled[calls[c].flow]
                                           THEN "start" ELSE "done"]
  /\ UNCHANGED <<enabled, handles, loops>>
  /\ UNCHANGED notSched

\* restart_flow starts a fresh loop
RestartStart ==
  /\ \E c \in Handlers :
       /\ calls[c].pc = "start"
       /\ Spawn(calls[c].flow)
       /\ calls' = [calls EXCEPT ![c].started = Len(loops) + 1, ![c].pc = "done"]
  /\ UNCHANGED enabled
  /\ UNCHANGED notSched

\* a flow is enabled or disabled in the store (a flow update)
SetEnabled ==
  /\ calls[Main].pc = "done"
  /\ \E f \in Flows : enabled' = [enabled EXCEPT ![f] = ~@]
  /\ UNCHANGED <<handles, loops, calls>>
  /\ UNCHANGED notSched

NextSched ==
  \/ StartAllRead
  \/ StartAllStart
  \/ StartAllDone
  \/ Call
  \/ Take
  \/ Cancel
  \/ LoopTerminate
  \/ RestartAwait
  \/ RestartRead
  \/ RestartStart
  \/ SetEnabled

SpecSched == InitSched /\ [][NextSched]_vars

\* ---- claim about the scheduler ----
LoopsOf(f) == {l \in 1..Len(loops) : loops[l].flow = f /\ loops[l].state # "terminated"}

\* C30: scheduler exclusivity: at most one trigger loop per flow is alive at
\* any instant, under any interleaving of the calls; a restart_flow that
\* started a loop did so after the loop it stopped had terminated and after
\* it found the flow enabled.
C30_Exclusive ==
  /\ \A f \in Flows : Cardinality(LoopsOf(f)) <= 1
  /\ \A c \in Handlers :
       calls[c].started # NoLoop =>
         /\ calls[c].saw_enabled
         /\ calls[c].taken # NoLoop => loops[calls[c].taken].state = "terminated"


\* =========================================================================
\* A run with deterministic runners (spec 4.4, Determinism): each node's
\* runner is a fixed function of the node and its merged input; only the
\* order in which the tasks of a level start and finish is left open.
\* =========================================================================
RunnerKinds == {"items", "pass", "fail"}

\* the runner of kind k on node n with merged input `input`
RunNode(k, n, input) ==
  IF k = "fail" THEN RunnerErr
  ELSE IF k = "items" THEN [ok |-> TRUE, output |-> Items(<<n>>)]
  ELSE [ok |-> TRUE, output |-> input]

InitDet ==
  /\ nodes = [i \in 1..MaxNodes |-> i]
  /\ edges \in EdgeLists
  /\ children = <<>>
  /\ parents = <<>>
  /\ in_degree = <<>>
  /\ queue = <<>>
  /\ sorted = <<>>
  /\ gpc = "topo_sort"
  /\ topo_result = [ok |-> TRUE, sorted |-> <<>>]
  /\ lsorted = <<>>
  /\ levels = <<>>
  /\ rpc = "submitted"
  /\ cur_level = 0
  /\ node_pc = <<>>
  /\ stored = <<>>
  /\ node_status = <<>>
  /\ run_status = "none"
  /\ begin_calls = 0
  /\ finish_calls = 0
  /\ update_calls = <<>>
  /\ invoked = {}
  /\ runners \in [NodeIds -> RunnerKinds]
  /\ PollIdle /\ MergeIdle /\ TwinIdle /\ SchedIdle /\ LocksIdle /\ PureIdle

\* step 3c with the node's own runner
NodeReturnDet ==
  /\ rpc = "running"
  /\ \E n \in DOMAIN node_pc :
       /\ node_pc[n] = "running"
       /\ LET r == RunNode(runners[n], n, merge(Gather(n)))
          IN IF r.ok THEN Finish(n, r.output, "succeeded")
             ELSE Finish(n, Failed, "failed")
  /\ UNCHANGED <<rpc, cur_level, run_status, begin_calls, finish_calls, invoked>>
  /\ UNCHANGED <<graphVars, notRun, runners>>

NextDet ==
  \/ TopoStart
  \/ TopoPop
  \/ TopoReturn
  \/ RunReject
  \/ RunBegin
  \/ RunBeginErr
  \/ NodeStart
  \/ NodeReturnDet
  \/ LevelAdvance
  \/ RunFinish

SpecDet == InitDet /\ [][NextDet]_vars

\* what node n stores in every execution: its runner applied to the merge of
\* what its parents store, the parents taken in edge declaration order
RECURSIVE Expected(_)
Expected(n) ==
  LET ps == SourcesOf(n)
      input == merge([i \in 1..Len(ps) |-> Expected(ps[i])])
      r == RunNode(runners[n], n, input)
  IN IF input = Failed \/ ~r.ok THEN Failed ELSE r.output

\* C31: run determinism: with deterministic runners every node stores the
\* value fixed by the flow alone - its runner applied to the merge of its
\* parents' stored outputs in edge declaration order - whatever the order in
\* which the tasks of a level start and finish.
C31_Deterministic ==
  Accepted => \A n \in DOMAIN stored : stored[n] = Expected(n)

C31_Witness ==
  /\ rpc = "finished"
  /\ \E n \in Range(nodes) :
       /\ runners[n] = "pass"
       /\ Len(parents[n]) = 2
       /\ stored[n].variant = "Items"
       /\ Len(stored[n].items) = 2
       /\ stored[n].items[1] > stored[n].items[2]


\* C32 (as claimed): once trigger_review has accepted a manual review of PR n
\* in repo r (marked it seen, answered 202), the poller never dispatches a
\* review for (r, n) afterwards, wherever in its seed or poll phase it is.
C32_ManualSuppresses ==
  [][\A r \in RepoSet, n \in PRs :
       <<r, n>> \in accepted => dispatch_count'[r][n] = dispatch_count[r][n]]_vars


\* a trigger_review request is answered with an error / with 202 in this step
ErrorAnswer ==
  \/ req = NoReq /\ req' = NoReq /\ nreq' # nreq
  \/ req.pc = "fetch_single_pr" /\ req' = NoReq
AcceptAnswer == req.pc = "mark_seen" /\ req' = NoReq

\* C33: trigger_review is all-or-nothing: a request answered with an error
\* (unknown repo, no token, PR fetch failure) leaves seen_prs, active_reviews
\* and reviews_completed unchanged and starts no review; a request answered
\* 202 inserts the PR number into seen_prs and starts exactly one review.
C33_AllOrNothing ==
  [][/\ ErrorAnswer =>
          /\ seen_prs' = seen_prs
          /\ active_reviews' = active_reviews
          /\ reviews_completed' = reviews_completed
          /\ tasks' = tasks
     /\ AcceptAnswer =>
          /\ req.repo \in DOMAIN seen_prs'
          /\ req.pr \in seen_prs'[req.repo]
          /\ \A r \in DOMAIN seen_prs : r \in DOMAIN seen_prs' /\
               seen_prs'[r] = seen_prs[r] \cup (IF r = req.repo THEN {req.pr} ELSE {})
          /\ tasks' = [tasks EXCEPT !["spawned"] = @ + 1]
          /\ active_reviews' = active_reviews
          /\ reviews_completed' = reviews_completed]_vars

\* a manual review was accepted: its PR is marked seen and its review task
\* is the one review in flight
C33_Witness ==
  /\ accepted # {}
  /\ \A a \in accepted : a[2] \in seen_prs[a[1]]
  /\ tasks["reviewing"] = 1
  /\ tasks["spawned"] = 0
  /\ active_reviews = 1
  /\ \A r \in RepoSet, n \in PRs : dispatch_count[r][n] = 0


\* reviews between their `*active += 1` and their `*active -= 1`, and reviews
\* that returned Ok(()) and have not yet done `*completed += 1`
InFlight == tasks["reviewing"] + (IF pc \in {"executing", "exec_dec"} THEN 1 ELSE 0)
OkPending == tasks["count"] + (IF pc = "exec_count" THEN 1 ELSE 0)

\* C34: active_reviews is the number of reviews that have incremented it and
\* not yet decremented it (never below 0, and 0 with no review in flight),
\* so every started review decrements it once, after Ok and after Err;
\* reviews_completed never decreases and goes up by one exactly when a review
\* that returned Ok(()) finishes.
C34_Counters ==
  /\ [](active_reviews = InFlight /\ active_reviews >= 0 /\ reviews_completed >= 0)
  /\ [][/\ reviews_completed' >= reviews_completed
        /\ reviews_completed' # reviews_completed <=> OkPending' = OkPending - 1
        /\ reviews_completed' # reviews_completed =>
             reviews_completed' = reviews_completed + 1
        /\ OkPending' > OkPending =>
             InFlight' = InFlight - 1 /\ OkPending' = OkPending + 1]_vars

\* one review has finished with Ok and been counted while another is in flight
C34_Witness ==
  /\ impl = "poller"
  /\ reviews_completed = 1
  /\ active_reviews = 1
  /\ tasks["reviewing"] = 1
  /\ tasks["count"] = 0


\* =========================================================================
\* The mutexes of ReviewState (github_reviews/mod.rs:13-33) and the order in
\* which the tasks of the slice take them.  Each task is the sequence of the
\* `.lock().await`, guard drops and other await points of its code; a lock
\* step waits until the mutex is free.
\* =========================================================================
MaxTasks == 2
Mutexes == {"seen_prs", "reviews_completed", "active_reviews", "github_token",
            "review_instructions"}
ReviewTasks == {<<"review", i>> : i \in 1..MaxTasks}
LockProcs == {<<"poller", 0>>, <<"trigger_review", 0>>, <<"review_status", 0>>}
               \cup ReviewTasks
Free == <<"free", 0>>

Lock(m) == [op |-> "lock", m |-> m, to |-> 0]
Unlock(m) == [op |-> "unlock", m |-> m, to |-> 0]
Await == [op |-> "await", m |-> "-", to |-> 0]
\* a branch of the code: go on with the next step or with step `to`
Either(to) == [op |-> "either", m |-> "-", to |-> to]
Goto(to) == [op |-> "goto", m |-> "-", to |-> to]

\* start_poller's spawned task: the two stores, then poller_loop with one
\* repo: seed fetch (Ok: insert; Err: retry or give up), filter, poll loop
PollerProgram ==
  << Lock("github_token"), Unlock("github_token"),
     Lock("review_instructions"), Unlock("review_instructions"),
     Await, Either(5), Lock("seen_prs"), Unlock("seen_prs"),
     Lock("seen_prs"), Unlock("seen_prs"),
     Await, Either(11), Lock("seen_prs"), Unlock("seen_prs"), Goto(11) >>

\* trigger_review: the error returns are the branches to the end
TriggerReviewProgram ==
  << Either(12), Lock("github_token"), Unlock("github_token"), Either(12),
     Lock("review_instructions"), Unlock("review_instructions"),
     Await, Either(12), Lock("seen_prs"), Unlock("seen_prs"), Goto(12),
     Goto(1) >>

\* review_status: `seen` lives to the end of the function, the two counter
\* guards are temporaries of their `let` statements
ReviewStatusProgram ==
  << Lock("seen_prs"), Lock("reviews_completed"), Unlock("reviews_completed"),
     Lock("active_reviews"), Unlock("active_reviews"), Unlock("seen_prs"),
     Goto(1) >>

\* a spawned review: += 1, handle_review, -= 1, and += 1 on completed if Ok
ReviewTaskProgram_Nested ==
  << Lock("active_reviews"), Lock("seen_prs"), Unlock("seen_prs"),
     Unlock("active_reviews"), Await, Goto(1) >>
ReviewTaskProgram ==
  << Lock("active_reviews"), Unlock("active_reviews"), Await,
     Lock("active_reviews"), Unlock("active_reviews"), Either(9),
     Lock("reviews_completed"), Unlock("reviews_completed"), Goto(1) >>

Program(p) ==
  IF p[1] = "poller" THEN PollerProgram
  ELSE IF p[1] = "trigger_review" THEN TriggerReviewProgram
  ELSE IF p[1] = "review_status" THEN ReviewStatusProgram
  ELSE ReviewTaskProgram

Instr(p) == Program(p)[lock_pc[p]]

\* ReviewState::new: no mutex is held; every task is at its first step
InitLocks ==
  /\ lock_holder = [m \in Mutexes |-> Free]
  /\ lock_pc = [p \in LockProcs |-> 1]
  /\ PollIdle /\ GraphIdle /\ MergeIdle /\ TwinIdle /\ RunIdle /\ SchedIdle /\ PureIdle

\* `.lock().await` is granted
Acquire(p) ==
  /\ Instr(p).op = "lock"
  /\ lock_holder[Instr(p).m] = Free
  /\ lock_holder' = [lock_holder EXCEPT ![Instr(p).m] = p]
  /\ lock_pc' = [lock_pc EXCEPT ![p] = @ + 1]
  /\ UNCHANGED notLocks

\* the guard is dropped
Release(p) ==
  /\ Instr(p).op = "unlock"
  /\ lock_holder' = [lock_holder EXCEPT ![Instr(p).m] = Free]
  /\ lock_pc' = [lock_pc EXCEPT ![p] = @ + 1]
  /\ UNCHANGED notLocks

\* an await on I/O or a timer returns
AwaitReturn(p) ==
  /\ Instr(p).op = "await"
  /\ lock_pc' = [lock_pc EXCEPT ![p] = @ + 1]
  /\ UNCHANGED lock_holder
  /\ UNCHANGED notLocks

\* a branch or a loop back
Branch(p) ==
  /\ Instr(p).op \in {"either", "goto"}
  /\ \/ lock_pc' = [lock_pc EXCEPT ![p] = Instr(p).to]
     \/ Instr(p).op = "either" /\ lock_pc' = [lock_pc EXCEPT ![p] = @ + 1]
  /\ UNCHANGED lock_holder
  /\ UNCHANGED notLocks

ProcStep(p) == Acquire(p) \/ Release(p) \/ AwaitReturn(p) \/ Branch(p)

NextLocks ==
  \/ \E p \in LockProcs : Acquire(p)
  \/ \E p \in LockProcs : Release(p)
  \/ \E p \in LockProcs : AwaitReturn(p)
  \/ \E p \in LockProcs : Branch(p)

SpecLocks == InitLocks /\ [][NextLocks]_vars

\* the runtime runs every ready task, and tokio's Mutex grants the lock in
\* FIFO order, so a task that can take a step again and again takes it
FairLocks == SpecLocks /\ \A p \in LockProcs : SF_vars(ProcStep(p))

Waiting(p) == Instr(p).op = "lock"
Holds(p, m) == lock_holder[m] = p

\* C35: no deadlock on the shared review state: in every state some task can
\* take a step (no set of tasks waits on each other), and every mutex
\* acquisition is eventually granted: no task stays at a lock step forever.
C35_NoDeadlock ==
  /\ [](\E p \in LockProcs : ENABLED ProcStep(p))
  /\ \A p \in LockProcs : []<>(~Waiting(p))

\* review_status holds seen_prs and waits for active_reviews, which a review
\* task holds, while the poller and trigger_review wait for seen_prs
C35_Witness ==
  /\ Holds(<<"review_status", 0>>, "seen_prs")
  /\ Waiting(<<"review_status", 0>>) /\ Instr(<<"review_status", 0>>).m = "active_reviews"
  /\ \E t \in ReviewTasks : Holds(t, "active_reviews")
  /\ Waiting(<<"poller", 0>>) /\ Instr(<<"poller", 0>>).m = "seen_prs"
  /\ Waiting(<<"trigger_review", 0>>) /\ Instr(<<"trigger_review", 0>>).m = "seen_prs"


\* =========================================================================
\* One spawned review: the task of poller_loop (mod.rs:197-231) running
\* handle_review (mod.rs:237-286), which runs reviewer::review_pr.
\* =========================================================================
MaxReviews == 2
ExitStatuses == {"exit0", "exit1", "exit2"}
pollRest == <<impl, github_token, seen_prs, seen_lock, pc, ri, attempt, seeded_repos,
              prs, new_prs, result, ticks, tasks, req, nreq, histVars>>

\* `status.success()`
Success_Any(st) == TRUE
Success(st) == st = "exit0"

InitReview ==
  /\ ReviewIdle
  /\ PollIdle /\ GraphIdle /\ MergeIdle /\ TwinIdle /\ RunIdle /\ SchedIdle /\ LocksIdle
  /\ SlackIdle /\ RenderIdle

\* review_pr returns Err (a `?` or the bail!): handle_review returns it
ReturnErr ==
  /\ rv_result' = "Err"
  /\ rv_pc' = "dec"

\* tokio::spawn of a review task
ReviewSpawn ==
  /\ rv_pc \in {"idle", "done"}
  /\ rv_n < MaxReviews
  /\ rv_n' = rv_n + 1
  /\ rv_pc' = "inc"
  /\ fetch_output' = "none"
  /\ exit_status' = "none"
  /\ rv_result' = "none"
  /\ rv_log' = "none"
  /\ UNCHANGED <<active_reviews, reviews_completed, pollRest, notReview>>

\* `*active += 1`
ReviewInc ==
  /\ rv_pc = "inc"
  /\ active_reviews' = active_reviews + 1
  /\ rv_pc' = "post_comment"
  /\ UNCHANGED <<fetch_output, exit_status, rv_result, rv_log, rv_n>>
  /\ UNCHANGED <<reviews_completed, pollRest, notReview>>

\* handle_review: post_comment; its error is only warned about
PostComment ==
  /\ rv_pc = "post_comment"
  /\ \E ok \in BOOLEAN : rv_pc' = "fetch_pr_diff"
  /\ UNCHANGED <<fetch_output, exit_status, rv_result, rv_log, rv_n>>
  /\ UNCHANGED <<active_reviews, reviews_completed, pollRest, notReview>>

\* handle_review: `fetch_pr_diff(..).await?`
FetchPrDiff ==
  /\ rv_pc = "fetch_pr_diff"
  /\ \E ok \in BOOLEAN :
       IF ok THEN rv_pc' = "git_fetch" /\ rv_result' = rv_result
       ELSE ReturnErr
  /\ UNCHANGED <<fetch_output, exit_status, rv_log, rv_n>>
  /\ UNCHANGED <<active_reviews, reviews_completed, pollRest, notReview>>

\* review_pr: git fetch; `?` if it cannot be run, a warning if it exits
\* with a non-zero status
GitFetch ==
  /\ rv_pc = "git_fetch"
  /\ \/ /\ ReturnErr
        /\ UNCHANGED fetch_output
     \/ /\ fetch_output' \in ExitStatuses
        /\ rv_pc' = "spawn"
        /\ UNCHANGED rv_result
  /\ UNCHANGED <<exit_status, rv_log, rv_n>>
  /\ UNCHANGED <<active_reviews, reviews_completed, pollRest, notReview>>

\* review_pr: `Command::new("claude")...spawn().context(..)?`
SpawnAssistant ==
  /\ rv_pc = "spawn"
  /\ \E ok \in BOOLEAN :
       IF ok THEN rv_pc' = "write_stdin" /\ rv_result' = rv_result
       ELSE ReturnErr
  /\ UNCHANGED <<fetch_output, exit_status, rv_log, rv_n>>
  /\ UNCHANGED <<active_reviews, reviews_completed, pollRest, notReview>>

\* review_pr: `stdin.write_all(..).await.context(..)?`
WriteStdin ==
  /\ rv_pc = "write_stdin"
  /\ \E ok \in BOOLEAN :
       IF ok THEN rv_pc' = "wait" /\ rv_result' = rv_result
       ELSE ReturnErr
  /\ UNCHANGED <<fetch_output, exit_status, rv_log, rv_n>>
  /\ UNCHANGED <<active_reviews, reviews_completed, pollRest, notReview>>

\* review_pr: `child.wait().await.context(..)?`, then the exit status
WaitAssistant ==
  /\ rv_pc = "wait"
  /\ \/ /\ ReturnErr
        /\ UNCHANGED exit_status
     \/ /\ exit_status' \in ExitStatuses
        /\ rv_result' = IF Success(exit_status') THEN "Ok" ELSE "Err"
        /\ rv_pc' = "dec"
  /\ UNCHANGED <<fetch_output, rv_log, rv_n>>
  /\ UNCHANGED <<active_reviews, reviews_completed, pollRest, notReview>>

\* `*active -= 1`
ReviewDec ==
  /\ rv_pc = "dec"
  /\ active_reviews' = active_reviews - 1
  /\ rv_pc' = "match"
  /\ UNCHANGED <<fetch_output, exit_status, rv_result, rv_log, rv_n>>
  /\ UNCHANGED <<reviews_completed, pollRest, notReview>>

\* `match result`: Ok counts and logs "Review posted", Err logs the error
ReviewMatch ==
  /\ rv_pc = "match"
  /\ IF rv_result = "Ok"
     THEN /\ reviews_completed' = reviews_completed + 1
          /\ rv_log' = "posted"
     ELSE /\ reviews_completed' = reviews_completed
          /\ rv_log' = "failed"
  /\ rv_pc' = "done"
  /\ UNCHANGED <<fetch_output, exit_status, rv_result, rv_n>>
  /\ UNCHANGED <<active_reviews, pollRest, notReview>>

NextReview ==
  \/ ReviewSpawn
  \/ ReviewInc
  \/ PostComment
  \/ FetchPrDiff
  \/ GitFetch
  \/ SpawnAssistant
  \/ WriteStdin
  \/ WaitAssistant
  \/ ReviewDec
  \/ ReviewMatch

SpecReview == InitReview /\ [][NextReview]_vars

\* C36: review_pr returns an error whenever the assistant exits with a
\* non-zero status or cannot be spawned, written to or waited on, and Ok
\* only when it exited successfully; a non-zero exit of git fetch lets the
\* review go on; a failed review is logged and not counted as completed.
C36_ExitSurfaced ==
  /\ [](/\ rv_result = "Ok" => exit_status = "exit0"
        /\ exit_status \in ExitStatuses \ {"exit0"} => rv_result = "Err"
        /\ (rv_pc \in {"dec", "match", "done"} /\ exit_status = "none") => rv_result = "Err"
        /\ rv_log = "posted" => rv_result = "Ok"
        /\ rv_pc = "done" => rv_log = (IF rv_result = "Ok" THEN "posted" ELSE "failed"))
  /\ [][/\ (rv_pc = "git_fetch" /\ fetch_output' \in ExitStatuses) =>
             rv_pc' = "spawn" /\ rv_result' = "none"
        /\ reviews_completed' # reviews_completed =>
             rv_result = "Ok" /\ reviews_completed' = reviews_completed + 1
        /\ (rv_pc = "match" /\ rv_pc' = "done" /\ rv_result = "Err") =>
             reviews_completed' = reviews_completed /\ rv_log' = "failed"]_vars

\* after one counted review, a second one whose git fetch exited non-zero
\* was carried on to the assistant, which exited non-zero: logged, not counted
C36_Witness ==
  /\ rv_pc = "done"
  /\ rv_n = 2
  /\ fetch_output = "exit1"
  /\ exit_status = "exit2"
  /\ rv_result = "Err"
  /\ rv_log = "failed"
  /\ reviews_completed = 1


\* =========================================================================
\* Slack Block Kit conversion (tasks/sinks/slack.rs).  A line is known by
\* its kind and its byte length; the lines carry no surrounding whitespace.
\*   rule    "---", "***" or "___"
\*   header  "# ", "## " or "### " followed by len bytes
\*   bullet  "- " or "* " followed by len bytes
\*   text    len bytes, of which `bolds` spans **..** and `links` [t](u)
\* =========================================================================
MAX_HEADER_LEN == 150
MAX_SECTION_LEN == 3000
MaxLines == 3
LineLens == {0, 1, 1499, 1500, 3001}
BulletLen == 4

MdLine(k, n, b, l) == [kind |-> k, len |-> n, bolds |-> b, links |-> l]
Plain(n) == MdLine("text", n, 0, 0)
MdLines ==
  {MdLine("rule", 3, 0, 0)}
    \cup {MdLine("header", n, 0, 0) : n \in {1, MAX_HEADER_LEN + 1}}
    \cup {MdLine("bullet", 1, 0, 0)}
    \cup {Plain(n) : n \in LineLens}
    \cup {MdLine("text", n, 1, 0) : n \in LineLens \ {0, 1}}
    \cup {MdLine("text", n, 0, 1) : n \in LineLens \ {0, 1}}

Divider == [kind |-> "divider", len |-> 0]
Header(n) == [kind |-> "header", len |-> n]
Section(n) == [kind |-> "section", len |-> n]

\* convert_links turns [t](u) into <u|t>, convert_bold turns **x** into *x*
convert_links(l) == [l EXCEPT !.len = l.len - l.links, !.links = 0]
convert_bold(l) == [l EXCEPT !.len = l.len - 2 * l.bolds, !.bolds = 0]

\* `lines.join("\n")` followed by `.lines()`: one trailing empty line is lost
RECURSIVE Formatted(_)
Formatted(ls) ==
  IF ls = <<>> THEN <<>>
  ELSE <<convert_bold(convert_links(Head(ls))).len>> \o Formatted(Tail(ls))

Relines(ns) ==
  IF ns # <<>> /\ ns[Len(ns)] = 0 THEN SubSeq(ns, 1, Len(ns) - 1) ELSE ns

\* byte length of a chunk holding the lines ns joined by '\n'
RECURSIVE ChunkLen(_)
ChunkLen(ns) ==
  IF ns = <<>> THEN 0
  ELSE IF Len(ns) = 1 THEN ns[1]
  ELSE ns[1] + 1 + ChunkLen(Tail(ns))

\* `text.trim()`: leading and trailing empty lines go
RECURSIVE TrimStart(_)
TrimStart(ns) ==
  IF ns # <<>> /\ Head(ns) = 0 THEN TrimStart(Tail(ns)) ELSE ns

RECURSIVE TrimEnd(_)
TrimEnd(ns) ==
  IF ns # <<>> /\ ns[Len(ns)] = 0 THEN TrimEnd(SubSeq(ns, 1, Len(ns) - 1)) ELSE ns

push_section_block(bs, chunk) ==
  LET n == ChunkLen(TrimEnd(TrimStart(chunk)))
  IN IF n = 0 THEN bs ELSE Append(bs, Section(n))

\* the chunking loop of flush_section
RECURSIVE ChunkLoop(_, _, _)
ChunkLoop(bs, chunk, ns) ==
  IF ns = <<>>
  THEN IF ChunkLen(chunk) # 0 THEN push_section_block(bs, chunk) ELSE bs
  ELSE LET line == Head(ns)
           full == ChunkLen(chunk) # 0 /\ ChunkLen(chunk) + 1 + line > MAX_SECTION_LEN
           bs1 == IF full THEN push_section_block(bs, chunk) ELSE bs
           c1 == IF full THEN <<>> ELSE chunk
           c2 == IF ChunkLen(c1) # 0 THEN Append(c1, line) ELSE <<line>>
       IN ChunkLoop(bs1, c2, Tail(ns))

flush_section(bs, ls) ==
  IF ls = <<>> THEN bs
  ELSE ChunkLoop(bs, <<>>, Relines(Formatted(ls)))

InitSlack ==
  /\ md_lines \in SeqsUpTo(MdLines, MaxLines)
  /\ current_lines = <<>>
  /\ blocks = <<>>
  /\ md_pc = "loop"
  /\ PollIdle /\ GraphIdle /\ MergeIdle /\ TwinIdle /\ RunIdle /\ SchedIdle /\ LocksIdle
  /\ ReviewIdle /\ RenderIdle

\* a horizontal rule: flush, then a Divider
MdRule ==
  /\ md_pc = "loop"
  /\ md_lines # <<>>
  /\ Head(md_lines).kind = "rule"
  /\ blocks' = Append(flush_section(blocks, current_lines), Divider)
  /\ current_lines' = <<>>
  /\ md_lines' = Tail(md_lines)
  /\ UNCHANGED <<md_pc, notSlack>>

\* a header: flush, then a Header block cut at MAX_HEADER_LEN
MdHeader ==
  /\ md_pc = "loop"
  /\ md_lines # <<>>
  /\ Head(md_lines).kind = "header"
  /\ blocks' = Append(flush_section(blocks, current_lines),
                      Header(Min(Head(md_lines).len, MAX_HEADER_LEN)))
  /\ current_lines' = <<>>
  /\ md_lines' = Tail(md_lines)
  /\ UNCHANGED <<md_pc, notSlack>>

\* everything else is accumulated; a list marker becomes "• "
MdAccumulate ==
  /\ md_pc = "loop"
  /\ md_lines # <<>>
  /\ Head(md_lines).kind \in {"bullet", "text"}
  /\ LET l == Head(md_lines)
     IN current_lines' =
          Append(current_lines,
                 IF l.kind = "bullet" THEN Plain(BulletLen + l.len) ELSE l)
  /\ md_lines' = Tail(md_lines)
  /\ UNCHANGED <<blocks, md_pc, notSlack>>

\* end of input: the last flush, and the blocks are returned
MdReturn ==
  /\ md_pc = "loop"
  /\ md_lines = <<>>
  /\ blocks' = flush_section(blocks, current_lines)
  /\ current_lines' = <<>>
  /\ md_pc' = "done"
  /\ UNCHANGED <<md_lines, notSlack>>

NextSlack ==
  \/ MdRule
  \/ MdHeader
  \/ MdAccumulate
  \/ MdReturn

SpecSlack == InitSlack /\ [][NextSlack]_vars

\* C37: every Section block produced by markdown_to_blocks has a text of
\* at most MAX_SECTION_LEN bytes, whatever the input, a single line longer
\* than the limit included.
C37_SectionBound ==
  \A i \in DOMAIN blocks :
    blocks[i].kind = "section" => blocks[i].len <= MAX_SECTION_LEN


\* =========================================================================
\* render_prompt (tasks/context.rs).  A string is a sequence of tokens: a
\* placeholder {{key}} is one token, any other text is the token "x".
\* =========================================================================
MaxTemplate == 2
MaxValue == 1
Keys == {"diff", "pr_title"}

\* `format!("{{{{{}}}}}", key)`
placeholder(key) == "{{" \o key \o "}}"
Tokens == {"x"} \cup {placeholder(k) : k \in Keys}

\* `result.replace(&placeholder, value)`: every occurrence, left to right
RECURSIVE replace(_, _, _)
replace(s, from, to) ==
  IF s = <<>> THEN <<>>
  ELSE (IF Head(s) = from THEN to ELSE <<Head(s)>>) \o replace(Tail(s), from, to)

InitRender ==
  /\ template \in SeqsUpTo(Tokens, MaxTemplate)
  /\ \E K \in SUBSET Keys : prompt_vars \in [K -> SeqsUpTo(Tokens, MaxValue)]
  /\ rendered = template
  /\ pending_keys = DOMAIN prompt_vars
  /\ rp_pc = "loop"
  /\ PollIdle /\ GraphIdle /\ MergeIdle /\ TwinIdle /\ RunIdle /\ SchedIdle /\ LocksIdle
  /\ ReviewIdle /\ SlackIdle

\* one turn of `for (key, value) in vars`: the HashMap hands out the
\* entries in an order of its own
RenderReplace ==
  /\ rp_pc = "loop"
  /\ \E key \in pending_keys :
       /\ rendered' = replace(rendered, placeholder(key), prompt_vars[key])
       /\ pending_keys' = pending_keys \ {key}
  /\ UNCHANGED <<template, prompt_vars, rp_pc, notRender>>

RenderReturn ==
  /\ rp_pc = "loop"
  /\ pending_keys = {}
  /\ rp_pc' = "done"
  /\ UNCHANGED <<template, prompt_vars, rendered, pending_keys, notRender>>

NextRender ==
  \/ RenderReplace
  \/ RenderReturn

SpecRender == InitRender /\ [][NextRender]_vars

\* the string render_prompt returns when the entries come in the order o
RECURSIVE RenderIn(_, _, _)
RenderIn(s, m, o) ==
  IF o = <<>> THEN s
  ELSE RenderIn(replace(s, placeholder(Head(o)), m[Head(o)]), m, Tail(o))

\* C38: for the same template and the same variable mapping render_prompt
\* returns the same string in whatever order the variables are substituted,
\* also when the value of one variable holds the placeholder of another.
C38_Deterministic ==
  rp_pc = "done" =>
    \A o \in Perms(DOMAIN prompt_vars) : rendered = RenderIn(template, prompt_vars, o)


\* C39: compute_levels never returns an empty level, the empty node
\* sequence included, and returns 1 + the largest node level levels.
C39_NoEmptyLevel ==
  gpc = "done" =>
    /\ \A i \in DOMAIN levels : levels[i] # <<>>
    /\ Len(levels) = 1 + Max({i - 1 : i \in {j \in DOMAIN levels : levels[j] # <<>>}})

====
